---------------------------- MODULE Spec2Model ----------------------------
(***************************************************************************)
(* Model of the vector-collection manager of conversational-search:        *)
(* src/src/database/qdrant_manager.py (QdrantManager).                     *)
(*                                                                         *)
(* The vector store is an external service.  Its state is the set of point *)
(* ids it holds (points), the ids it has acknowledged but not yet made     *)
(* visible (pending: upload_points is called without wait=True) and the    *)
(* collection schema.  Every call to it may fail.                          *)
(*                                                                         *)
(* The benchmark of src/src/benchmark_vdb.py (run_benchmark) is modelled   *)
(* too.  The specifications share the variables:                           *)
(*   Spec             upload(), step by step, against the store            *)
(*   SpecSearch       search_points()                                      *)
(*   SpecValidate     _validate_vector_compatibility() as a pure function  *)
(*   SpecPoller       wait_for_collection_index() called on its own        *)
(*   SpecPollerStuck  the same against a store that never reports GREEN    *)
(*   SpecBench        run_benchmark(): warmup, measured calls, collection  *)
(*   SpecStats        the statistics of run_benchmark as a pure function   *)
(*   SpecAdmin        create_collection() and delete_collection()          *)
(*   SpecEtl          the ETL job of src/src/etl_vectordb.py               *)
(*   SpecToken        TokenManager of src/src/core/token_manager.py        *)
(*   SpecNeedsRefresh TokenManager._needs_refresh() as a pure function     *)
(*   SpecTokenThreads TokenManager shared by threads, step by step         *)
(*   SpecHm           HMParallelAgent of src/src/agents/hm_parallel_agent.py*)
(*   SpecRunner       AgentRunner of src/src/core/runner.py                *)
(*   SpecEvaluate     process_queries() of src/src/evaluate_queries.py     *)
(***************************************************************************)
EXTENDS Integers, Sequences, FiniteSets, TLC

\* ------------------------------------------------------------------ bounds
MaxId == 2          \* point ids are 1..MaxId
MaxLen == 3         \* longest entity stream
MaxBatch == 2       \* largest batch_size
MaxDim == 2         \* largest vector dimension
WaitTimeout == 0    \* wait_timeout the caller of upload passes, in seconds
MaxLimit == 2       \* largest search limit
MaxTimeout == 6     \* largest timeout of a wait_for_collection_index call
MaxLookup == 1      \* longest status lookup, in seconds
MaxRuns == 3        \* largest --runs of a benchmark
MaxWarmup == 2      \* largest --warmup of a benchmark
MaxConcurrency == 2 \* largest --concurrency of a benchmark
MaxSamples == 3     \* most latency samples given to the statistics
MaxLatency == 4     \* largest latency sample, in ms
MaxBuffer == 1      \* largest refresh_buffer_seconds of a TokenManager
MaxNow == 3         \* the clock runs from 0 to MaxNow
MaxLife == 2        \* longest lifetime of a fetched token
MaxFetches == 2     \* most token fetches of one TokenManager
MaxThreads == 3      \* threads sharing one TokenManager
MaxEvents == 2       \* events one sub-agent emits in one invocation
MaxRetries == 2      \* largest max_retries passed to AgentRunner.run
MaxCalls == 2        \* calls of AgentRunner.run in one behaviour
MaxQueries == 3      \* longest list of input queries of process_queries

\* sleep(5.0) between two status polls
SleepSeconds == 5

Ids == 1..MaxId
Dims == 1..MaxDim
Names == {"image", "text"}

Min(a, b) == IF a < b THEN a ELSE b
Range(s) == {s[i] : i \in 1..Len(s)}
NoDims == [n \in {} |-> 0]

\* ------------------------------------------------------------ data shapes
\* PointStruct.vector: a dict name -> list (named) or a plain list (unnamed);
\* only the lengths of the lists matter to the manager.
NamedVec(d) == [named |-> TRUE, dims |-> d, len |-> 0]
UnnamedVec(n) == [named |-> FALSE, dims |-> NoDims, len |-> n]
Vectors ==
    {NamedVec(d) : d \in UNION {[S -> 1..(MaxDim + 1)] : S \in SUBSET Names}}
    \cup {UnnamedVec(n) : n \in 1..(MaxDim + 1)}

\* collection_config.config.params.vectors: a dict name -> VectorParams, kept
\* in insertion order (spaces), or a single VectorParams (size).
NamedSchema(sp) == [named |-> TRUE, spaces |-> sp, size |-> 0]
UnnamedSchema(n) == [named |-> FALSE, spaces |-> <<>>, size |-> n]
SpaceSeqs ==
    {<<[name |-> a, size |-> d]>> : a \in Names, d \in Dims}
    \cup {<<[name |-> a, size |-> d], [name |-> b, size |-> e]>> :
            a \in Names, b \in Names, d \in Dims, e \in Dims}
Schemas ==
    {NamedSchema(sp) : sp \in {q \in SpaceSeqs : \A i \in 1..Len(q) : \A j \in 1..Len(q) :
                                    q[i].name = q[j].name => i = j}}
    \cup {UnnamedSchema(n) : n \in Dims}

SchemaNames(cfg) == {cfg.spaces[i].name : i \in 1..Len(cfg.spaces)}
SpaceIndex(cfg, name) == CHOOSE i \in 1..Len(cfg.spaces) : cfg.spaces[i].name = name
SizeOf(cfg, name) == cfg.spaces[SpaceIndex(cfg, name)].size

\* --------------------------------------- _validate_vector_compatibility
\* The loop `for name, config in vectors_config.items()`, from position i on,
\* with the names already warned about: the result is the error raised
\* ("ok" when none) and the warnings logged before it.
RECURSIVE ValidateNamedAbsentFatal(_, _, _, _)
ValidateNamedAbsentFatal(vec, spaces, i, warned) ==
    IF i > Len(spaces) THEN [err |-> "ok", warned |-> warned]
    ELSE IF spaces[i].name \notin DOMAIN vec.dims
         THEN [err |-> "MissingVector", warned |-> warned]
    ELSE IF vec.dims[spaces[i].name] # spaces[i].size
         THEN [err |-> "DimensionMismatch", warned |-> warned]
    ELSE ValidateNamedAbsentFatal(vec, spaces, i + 1, warned)

RECURSIVE ValidateNamedFrom(_, _, _, _)
ValidateNamedFrom(vec, spaces, i, warned) ==
    IF i > Len(spaces) THEN [err |-> "ok", warned |-> warned]
    ELSE IF spaces[i].name \notin DOMAIN vec.dims
         THEN ValidateNamedFrom(vec, spaces, i + 1, warned \cup {spaces[i].name})
    ELSE IF vec.dims[spaces[i].name] # spaces[i].size
         THEN [err |-> "DimensionMismatch", warned |-> warned]
    ELSE ValidateNamedFrom(vec, spaces, i + 1, warned)

ValidateNoExtraNames(vec, cfg) ==
    IF cfg.named /\ vec.named /\ ~(DOMAIN vec.dims \subseteq SchemaNames(cfg))
    THEN [err |-> "UnknownVectorName", warned |-> {}]
    ELSE IF cfg.named /\ vec.named THEN ValidateNamedFrom(vec, cfg.spaces, 1, {})
    ELSE IF cfg.named THEN [err |-> "ExpectedNamed", warned |-> {}]
    ELSE IF vec.named THEN [err |-> "ExpectedUnnamed", warned |-> {}]
    ELSE IF vec.len # cfg.size THEN [err |-> "DimensionMismatch", warned |-> {}]
    ELSE [err |-> "ok", warned |-> {}]

ValidateIgnoresLength(vec, cfg) ==
    IF cfg.named
    THEN IF ~vec.named THEN [err |-> "ExpectedNamed", warned |-> {}]
         ELSE [err |-> "ok", warned |-> SchemaNames(cfg) \ DOMAIN vec.dims]
    ELSE IF vec.named THEN [err |-> "ExpectedUnnamed", warned |-> {}]
         ELSE [err |-> "ok", warned |-> {}]

ValidateVectorCompatibility(vec, cfg) ==
    IF cfg.named
    THEN IF ~vec.named THEN [err |-> "ExpectedNamed", warned |-> {}]
         ELSE ValidateNamedFrom(vec, cfg.spaces, 1, {})
    ELSE IF vec.named THEN [err |-> "ExpectedUnnamed", warned |-> {}]
         ELSE IF vec.len # cfg.size THEN [err |-> "DimensionMismatch", warned |-> {}]
         ELSE [err |-> "ok", warned |-> {}]

VARIABLES
    points,        \* store: ids of the points visible in the collection
    pending,       \* store: ids acknowledged by an upsert, not yet visible
    schema,        \* store: the collection's vector configuration
    pc,            \* upload(): "idle", "upload_points", "wait", "returned", "raised"
    cfg,           \* upload(): [batch_size, check_existing]
    stream,        \* the entities pulled from `entities` so far, in order
    exhausted,     \* the entity iterator has raised StopIteration
    gpos,          \* entities consumed by safe_points_generator
    genDone,       \* safe_points_generator has finished
    batch_buffer,  \* safe_points_generator's batch_buffer
    handed,        \* every point the generator has yielded to upload_points
    sent,          \* how many of them upload_points has sent to the store
    lookups,       \* every retrieve() of process_batch: [ids, ok, existing]
    mapFails,      \* "Skipping entity due to mapping error" warnings logged
    prepFetch,     \* get_collection of _prepare_upload: "none", "ok", "fail"
    polls,         \* get_collection calls of wait_for_collection_index
    elapsed,       \* wait_for_collection_index: time() - start_time
    timeout,       \* wait_for_collection_index: timeout
    waits,         \* wait_for_collection_index calls made by this upload()
    err,           \* the exception upload() raised, "none" when none
    uploadNo,      \* number of upload() calls started
    start,         \* the ids the collection held when this upload() was called
    prev,          \* the previous upload() call: [stream, err, cfg, handed]
    search,        \* search_points(): the call in progress or last finished
    validation,    \* _validate_vector_compatibility(): arguments and result
    poller,        \* wait_for_collection_index() called on its own
    bench,         \* run_benchmark(): the run in progress or last finished
    stats,         \* the statistics of run_benchmark: sample and results
    collections,   \* store: the names of the collections it holds
    admin,         \* create_collection() / delete_collection(): the last call
    etl,           \* etl_vectordb.main(): the job's position and exit status
    token,         \* TokenManager: its fields, the clock and the last call
    threads,       \* TokenManager shared by threads: the lock and each thread
    hm,            \* HMParallelAgent._run_async_impl(): one invocation
    runner,        \* AgentRunner: the session service and the call in progress
    evalq          \* evaluate_queries.process_queries(): one evaluation

storeVars == <<points, pending, schema>>
genVars == <<stream, exhausted, gpos, genDone, batch_buffer, handed, lookups, mapFails>>
waitVars == <<polls, elapsed, timeout, waits>>
uploadVars == <<pc, cfg, genVars, sent, prepFetch, waitVars, err, uploadNo, start, prev>>
benchVars == <<bench, stats>>
adminVars == <<collections, admin>>
jobVars == <<adminVars, etl, token>>
appVars == <<threads, hm, runner, evalq>>
vars == <<storeVars, uploadVars, search, validation, poller, benchVars, jobVars, appVars>>

\* ------------------------------------------------------------- entities
\* An entity is opaque to the manager; the mapper makes a PointStruct of it or
\* raises.  "good" maps to a vector matching UploadSchema, "bad" to one of the
\* wrong length, "unmappable" makes the mapper raise.  One entity of the wrong
\* length is enough: its id is one the collection may or may not hold.
UploadSchema == NamedSchema(<<[name |-> "image", size |-> MaxDim]>>)
GoodVec == NamedVec("image" :> MaxDim)
BadVec == NamedVec("image" :> (MaxDim + 1))
BadRow == [id |-> 0, kind |-> "unmappable"]
Entities == {[id |-> i, kind |-> "good"] : i \in Ids} \cup {[id |-> 1, kind |-> "bad"], BadRow}

MapperRaises(e) == e.kind = "unmappable"
Mapper(e) == [id |-> e.id, vector |-> IF e.kind = "good" THEN GoodVec ELSE BadVec]

IdsOf(pts) == {pts[i].id : i \in 1..Len(pts)}
IdSeq(pts) == [i \in 1..Len(pts) |-> pts[i].id]

NoSearch == [pc |-> "idle", qlen |-> 0, using |-> "", limit |-> 0, issued |-> 0,
             result |-> {}, err |-> "none", storeErr |-> "none"]
NoValidation == [vec |-> UnnamedVec(1), cfg |-> UnnamedSchema(1), called |-> FALSE,
                 err |-> "none", warned |-> {}]
NoPrev == [stream |-> <<>>, err |-> "none", handed |-> 0,
           cfg |-> [batch_size |-> 1, check_existing |-> TRUE]]

NoPoller == [pc |-> "idle", timeout |-> 0, elapsed |-> 0, seen |-> <<>>, sleeps |-> 0,
             warned |-> FALSE]
NoBench == [phase |-> "idle", runs |-> 0, warmup |-> 0, concurrency |-> 0,
            warmStarted |-> 0, warmDone |-> 0, warmBusy |-> FALSE, sem |-> 0,
            task |-> <<>>, completed |-> <<>>, latencies |-> <<>>, err |-> "none"]
NoStats == [data |-> <<>>, computed |-> FALSE, err |-> "none", sum |-> 0,
            p95 |-> 0, p99 |-> 0]
NoArgs == [vector_configs |-> NoDims, use_quantization |-> FALSE]
NoAdmin == [op |-> "none", pc |-> "idle", name |-> "", args |-> NoArgs,
            requests |-> <<>>, status |-> "none", logged |-> "none", err |-> "none"]
NoEtl == [pc |-> "idle", ran |-> <<>>, failed |-> "none", err |-> "none", exit |-> -1]
NoCall == [op |-> "none", needed |-> FALSE, refreshed |-> FALSE, afterClear |-> FALSE,
           result |-> <<>>, err |-> "none"]
NoToken == [pc |-> "idle", buffer |-> 0, cached |-> <<>>, expiry |-> <<>>, now |-> 0,
            fetches |-> 0, lost |-> {}, cleared |-> {}, sinceClear |-> FALSE,
            last |-> NoCall]
JobsIdle == collections = {} /\ admin = NoAdmin /\ etl = NoEtl /\ token = NoToken

NoThread == [pc |-> "idle", op |-> "none", result |-> <<>>, err |-> "none",
             expiresAt |-> <<>>]
NoThreads == [lock |-> 0, th |-> <<>>]
NoHm == [pc |-> "idle", hist |-> <<>>, finished |-> {}, outputs |-> <<>>,
         events |-> <<>>]
NoRun == [op |-> "none", key |-> <<>>, query |-> "", max_retries |-> 0,
          content |-> "", state_delta |-> <<>>, attempts |-> <<>>,
          result |-> <<>>, err |-> "none"]
NoRunner == [pc |-> "idle", sessions |-> <<>>, before |-> <<>>, calls |-> 0,
             call |-> NoRun]
NoEvalq == [pc |-> "idle", queries |-> <<>>, cfg |-> <<>>, valid_queries |-> <<>>,
            warmLeft |-> 0, warmRuns |-> 0, queue |-> 0, produced |-> 0,
            tasks |-> <<>>, progress_counter |-> 0, results |-> <<>>, err |-> "none"]
AppIdle == threads = NoThreads /\ hm = NoHm /\ runner = NoRunner /\ evalq = NoEvalq

ToolsIdle == poller = NoPoller /\ bench = NoBench /\ stats = NoStats

UploadIdle ==
    /\ pc = "idle"
    /\ cfg = [batch_size |-> 1, check_existing |-> TRUE]
    /\ stream = <<>> /\ exhausted = FALSE /\ gpos = 0 /\ genDone = FALSE
    /\ batch_buffer = <<>> /\ handed = <<>> /\ sent = 0 /\ lookups = <<>>
    /\ mapFails = 0 /\ prepFetch = "none"
    /\ polls = 0 /\ elapsed = 0 /\ timeout = 0 /\ waits = 0
    /\ err = "none" /\ uploadNo = 0
    /\ start = {}
    /\ prev = NoPrev

Init ==
    /\ points \in SUBSET Ids
    /\ pending = {}
    /\ schema = UploadSchema
    /\ UploadIdle
    /\ AppIdle
    /\ JobsIdle
    /\ ToolsIdle
    /\ search = NoSearch
    /\ validation = NoValidation

\* --------------------------------------------------------------- upload()
\* The entities the iterator can give next: any entity on the first call, the
\* same stream again on the second.
SourceNext ==
    IF exhausted THEN {}
    ELSE IF uploadNo = 1
         THEN IF Len(stream) < MaxLen THEN Entities ELSE {}
         ELSE IF Len(stream) < Len(prev.stream) THEN {prev.stream[Len(stream) + 1]} ELSE {}
SourceCanStop == exhausted \/ uploadNo = 1 \/ Len(stream) = Len(prev.stream)

\* _prepare_upload from `first_point = mapper(first_entity)` on.
PrepareFirstNoValidation(e) ==
    IF MapperRaises(e)
    THEN prepFetch' = "none" /\ err' = "MappingError" /\ pc' = "raised"
    ELSE \E f \in {"ok", "fail"} :
            /\ prepFetch' = f
            /\ IF f = "fail" THEN err' = "StoreError" /\ pc' = "raised"
               ELSE err' = "none" /\ pc' = "upload_points"

PrepareFirst(e) ==
    IF MapperRaises(e)
    THEN prepFetch' = "none" /\ err' = "MappingError" /\ pc' = "raised"
    ELSE \E f \in {"ok", "fail"} :
            /\ prepFetch' = f
            /\ IF f = "fail" THEN err' = "StoreError" /\ pc' = "raised"
               ELSE LET v == ValidateVectorCompatibility(Mapper(e).vector, schema)
                    IN IF v.err = "ok" THEN err' = "none" /\ pc' = "upload_points"
                       ELSE err' = v.err /\ pc' = "raised"

\* upload() up to the return of _prepare_upload: `firsts` are the entities the
\* iterator can give first, `canBeEmpty` says whether it can be empty, `cfgs`
\* are the arguments the caller may pass.
\* `return itertools.chain([first_entity], iterator)`: how many of the
\* entities pulled so far the generator will not see again.
RechainedWithoutFirst(pulled) == Len(pulled)
Rechained(pulled) == 0

Configs == [batch_size : 1..MaxBatch, check_existing : BOOLEAN]
StartUpload(firsts, canBeEmpty, cfgs) ==
    /\ uploadNo' = uploadNo + 1
    /\ start' = points
    /\ cfg' \in cfgs
    /\ genDone' = FALSE /\ batch_buffer' = <<>> /\ handed' = <<>>
    /\ sent' = 0 /\ lookups' = <<>> /\ mapFails' = 0
    /\ polls' = 0 /\ elapsed' = 0 /\ timeout' = 0 /\ waits' = 0
    /\ \/ /\ canBeEmpty
          /\ stream' = <<>> /\ exhausted' = TRUE /\ gpos' = 0
          /\ prepFetch' = "none" /\ err' = "none" /\ pc' = "upload_points"
       \/ \E e \in firsts :
            /\ stream' = <<e>> /\ exhausted' = FALSE
            /\ gpos' = Rechained(<<e>>)
            /\ PrepareFirst(e)
    /\ UNCHANGED <<appVars, storeVars, search, validation, poller, benchVars, jobVars>>

Upload ==
    /\ pc = "idle"
    /\ prev' = prev
    /\ StartUpload(Entities, TRUE, Configs)

\* After an upload that returned, and once the store has applied its writes,
\* the caller uploads the same entity stream a second time, with the same
\* arguments.
UploadAgain ==
    /\ pc = "returned" /\ pending = {}
    /\ uploadNo = 1
    /\ prev' = [stream |-> stream, err |-> err, cfg |-> cfg, handed |-> Len(handed)]
    /\ StartUpload(IF stream = <<>> THEN {} ELSE {stream[1]}, stream = <<>>, {cfg})

\* process_batch: the existence lookup (ok, or raising) and the points yielded.
RetrieveFindsNothing(pts) == {}
Retrieve(pts) == IdsOf(pts) \cap points
Lookup(pts, ok) ==
    [ids |-> IdSeq(pts), ok |-> ok, existing |-> IF ok THEN Retrieve(pts) ELSE {}]
ProcessBatchKeepsAll(pts, ok) == pts
ProcessBatchDropsOnError(pts, ok) ==
    IF ok THEN SelectSeq(pts, LAMBDA p : p.id \notin Retrieve(pts)) ELSE <<>>
ProcessBatchReversed(pts, ok) ==
    LET out == IF ok THEN SelectSeq(pts, LAMBDA p : p.id \notin Retrieve(pts)) ELSE pts
    IN [i \in 1..Len(out) |-> out[Len(out) + 1 - i]]
ProcessBatch(pts, ok) ==
    IF ok THEN SelectSeq(pts, LAMBDA p : p.id \notin Retrieve(pts)) ELSE pts

\* `except Exception as map_err` of safe_points_generator: the warning is
\* logged and the loop goes on with the batch_buffer it had.
BufferAfterMapErrorCleared(buf) == <<>>
BufferAfterMapError(buf) == buf

\* `if not check_existing: yield point`: the point bypasses process_batch.
SkipsLookupNever(c) == FALSE
SkipsLookup(c) == ~c.check_existing

\* One iteration of `for entity in entities` of safe_points_generator, over
\* chain([first_entity], iterator).
GenEntity ==
    /\ pc = "upload_points" /\ ~genDone
    /\ \E e \in (IF gpos < Len(stream) THEN {stream[gpos + 1]} ELSE SourceNext) :
        /\ stream' = IF gpos < Len(stream) THEN stream ELSE Append(stream, e)
        /\ gpos' = gpos + 1
        /\ IF MapperRaises(e)
           THEN /\ mapFails' = mapFails + 1
                /\ batch_buffer' = BufferAfterMapError(batch_buffer)
                /\ UNCHANGED <<appVars, handed, lookups>>
           ELSE IF SkipsLookup(cfg)
           THEN /\ handed' = Append(handed, Mapper(e))
                /\ UNCHANGED <<appVars, batch_buffer, lookups, mapFails>>
           ELSE LET buf == Append(batch_buffer, Mapper(e))
                IN IF Len(buf) >= cfg.batch_size
                   THEN \E ok \in BOOLEAN :
                          /\ handed' = handed \o ProcessBatch(buf, ok)
                          /\ lookups' = Append(lookups, Lookup(buf, ok))
                          /\ batch_buffer' = <<>>
                          /\ mapFails' = mapFails
                   ELSE /\ batch_buffer' = buf
                        /\ UNCHANGED <<appVars, handed, lookups, mapFails>>
    /\ UNCHANGED <<appVars, storeVars, pc, cfg, exhausted, genDone, sent, prepFetch, waitVars,
                   err, uploadNo, start, prev, search, validation, poller, benchVars, jobVars>>

\* The iterator is exhausted: the remaining buffer is processed and the
\* generator ends.
GenStop ==
    /\ pc = "upload_points" /\ ~genDone
    /\ gpos = Len(stream) /\ SourceCanStop
    /\ exhausted' = TRUE /\ genDone' = TRUE
    /\ IF batch_buffer # <<>>
       THEN \E ok \in BOOLEAN :
              /\ handed' = handed \o ProcessBatch(batch_buffer, ok)
              /\ lookups' = Append(lookups, Lookup(batch_buffer, ok))
              /\ batch_buffer' = <<>>
       ELSE UNCHANGED <<appVars, batch_buffer, handed, lookups>>
    /\ UNCHANGED <<appVars, storeVars, pc, cfg, stream, gpos, mapFails, sent, prepFetch, waitVars,
                   err, uploadNo, start, prev, search, validation, poller, benchVars, jobVars>>

\* `except Exception as e` around upload_points and wait_for_collection_index:
\* the error is logged and re-raised.
UploadExceptSwallows(e) == [pc |-> "wait", err |-> e]
UploadExcept(e) == [pc |-> "raised", err |-> e]

\* upload_points sends the next batch of yielded points to the store.  The
\* store accepts it (the points become visible later) or the call raises; a
\* point whose vector does not fit the schema is rejected by the store.
BulkWriteBatch ==
    /\ pc = "upload_points"
    /\ sent < Len(handed)
    /\ Len(handed) - sent >= cfg.batch_size \/ genDone
    /\ LET n == Min(cfg.batch_size, Len(handed) - sent)
           batch == SubSeq(handed, sent + 1, sent + n)
       IN \/ /\ \A i \in 1..n :
                    ValidateVectorCompatibility(batch[i].vector, schema).err = "ok"
             /\ pending' = pending \cup (IdsOf(batch) \ points)
             /\ sent' = sent + n
             /\ UNCHANGED <<appVars, pc, err>>
          \/ /\ err' = UploadExcept("BulkWriteError").err
             /\ pc' = UploadExcept("BulkWriteError").pc
             /\ UNCHANGED <<appVars, pending, sent>>
    /\ UNCHANGED <<appVars, points, schema, cfg, genVars, prepFetch, waitVars, uploadNo, start,
                   prev, search, validation, poller, benchVars, jobVars>>

\* One turn of the loop of wait_for_collection_index, given what the status
\* lookup gave (st, "fail" when get_collection raised) and time() - start_time
\* (el): the exception propagates, the loop breaks on GREEN, breaks with the
\* timeout warning, or sleeps and goes round again.
WaitTurnNoTimeout(st, el, to) ==
    IF st = "fail" THEN "raise" ELSE IF st = "green" THEN "green" ELSE "sleep"
WaitTurnIgnoresGreen(st, el, to) ==
    IF st = "fail" THEN "raise" ELSE IF el > to THEN "timeout" ELSE "sleep"
WaitTurn(st, el, to) ==
    IF st = "fail" THEN "raise"
    ELSE IF st = "green" THEN "green"
    ELSE IF el > to THEN "timeout"
    ELSE "sleep"

BulkDoneEarly ==
    /\ pc = "upload_points"
    /\ pc' = "wait"
    /\ waits' = waits + 1
    /\ timeout' = WaitTimeout
    /\ elapsed' = 0 /\ polls' = 0
    /\ UNCHANGED <<appVars, storeVars, cfg, genVars, sent, prepFetch, err, uploadNo, start, prev,
                   search, validation, poller, benchVars, jobVars>>

\* upload_points returns; wait_for_collection_index is entered.
BulkDone ==
    /\ pc = "upload_points"
    /\ genDone /\ sent = Len(handed)
    /\ pc' = "wait"
    /\ waits' = waits + 1
    /\ timeout' = WaitTimeout
    /\ elapsed' = 0 /\ polls' = 0
    /\ UNCHANGED <<appVars, storeVars, cfg, genVars, sent, prepFetch, err, uploadNo, start, prev,
                   search, validation, poller, benchVars, jobVars>>

\* One turn of the loop of wait_for_collection_index: the status lookup (which
\* may raise), the GREEN test, the timeout test, the sleep.
WaitPoll ==
    /\ pc = "wait"
    /\ polls' = polls + 1
    /\ \E st \in {"green", "yellow", "red", "fail"} :
        LET turn == WaitTurn(st, elapsed, timeout)
        IN IF turn = "raise"
           THEN /\ err' = UploadExcept("StoreError").err
                /\ pc' = UploadExcept("StoreError").pc
                /\ elapsed' = elapsed
           ELSE IF turn \in {"green", "timeout"}
                THEN pc' = "returned" /\ UNCHANGED <<appVars, err, elapsed>>
                ELSE elapsed' = elapsed + SleepSeconds /\ UNCHANGED <<appVars, pc, err>>
    /\ UNCHANGED <<appVars, storeVars, cfg, genVars, sent, prepFetch, timeout, waits, uploadNo, start,
                   prev, search, validation, poller, benchVars, jobVars>>

\* The store makes an acknowledged point visible.
StoreApply ==
    /\ \E i \in pending :
        /\ points' = points \cup {i}
        /\ pending' = pending \ {i}
    /\ UNCHANGED <<appVars, schema, uploadVars, search, validation, poller, benchVars, jobVars>>

Next ==
    \/ Upload
    \/ UploadAgain
    \/ GenEntity
    \/ GenStop
    \/ BulkWriteBatch
    \/ BulkDone
    \/ WaitPoll
    \/ StoreApply

Spec == Init /\ [][Next]_vars

\* --------------------------------------------------------- search_points()
\* The query fits the collection: the selected space is declared and the query
\* vector has its dimension.
QueryFits(q, u) == u \in SchemaNames(schema) /\ q = SizeOf(schema, u)

\* search_points up to `await self.client.query_points(...)`.
SearchRequestValidated(q, u, l) ==
    IF QueryFits(q, u)
    THEN [pc |-> "awaiting", qlen |-> q, using |-> u, limit |-> l, issued |-> 1,
          result |-> {}, err |-> "none", storeErr |-> "none"]
    ELSE [pc |-> "raised", qlen |-> q, using |-> u, limit |-> l, issued |-> 0,
          result |-> {}, err |-> "SchemaValidationError", storeErr |-> "none"]
SearchRequest(q, u, l) ==
    [pc |-> "awaiting", qlen |-> q, using |-> u, limit |-> l, issued |-> 1,
     result |-> {}, err |-> "none", storeErr |-> "none"]

\* What client.query_points can raise.
StoreErrors == {"ResponseHandlingException", "UnexpectedResponse"}

\* `except Exception as e`: the error e of query_points is logged and raised
\* again by the bare `raise`; nothing is returned.
SearchExceptFallback(s, e) == [s EXCEPT !.pc = "returned", !.storeErr = e]
SearchExcept(s, e) == [s EXCEPT !.pc = "raised", !.storeErr = e, !.err = e]

SearchCall ==
    /\ search.pc \in {"idle", "returned", "raised"}
    /\ \E q \in 1..(MaxDim + 1), u \in Names, l \in 1..MaxLimit :
            search' = SearchRequest(q, u, l)
    /\ UNCHANGED <<appVars, storeVars, uploadVars, validation, poller, benchVars, jobVars>>

\* The store answers the query: it raises (always, when the query does not fit
\* the collection) or returns at most `limit` of its points; search_points
\* returns response.points or re-raises.
SearchReturn ==
    /\ search.pc = "awaiting"
    /\ \/ \E e \in StoreErrors : search' = SearchExcept(search, e)
       \/ /\ QueryFits(search.qlen, search.using)
          /\ \E r \in SUBSET points :
                /\ Cardinality(r) <= search.limit
                /\ search' = [search EXCEPT !.pc = "returned", !.result = r]
    /\ UNCHANGED <<appVars, storeVars, uploadVars, validation, poller, benchVars, jobVars>>

InitSearch ==
    /\ points \in SUBSET Ids
    /\ pending = {}
    /\ schema \in {c \in Schemas : c.named}
    /\ UploadIdle
    /\ AppIdle
    /\ JobsIdle
    /\ ToolsIdle
    /\ search = NoSearch
    /\ validation = NoValidation

NextSearch == SearchCall \/ SearchReturn

SpecSearch == InitSearch /\ [][NextSearch]_vars

\* ------------------------------- _validate_vector_compatibility, applied
ValidateCall ==
    /\ ~validation.called
    /\ LET r == ValidateVectorCompatibility(validation.vec, validation.cfg)
       IN validation' = [validation EXCEPT !.called = TRUE, !.err = r.err,
                                            !.warned = r.warned]
    /\ UNCHANGED <<appVars, storeVars, uploadVars, search, poller, benchVars, jobVars>>

InitValidate ==
    /\ points = {}
    /\ pending = {}
    /\ schema = UploadSchema
    /\ UploadIdle
    /\ AppIdle
    /\ JobsIdle
    /\ ToolsIdle
    /\ search = NoSearch
    /\ validation \in {[vec |-> v, cfg |-> c, called |-> FALSE, err |-> "none",
                        warned |-> {}] : v \in Vectors, c \in Schemas}

NextValidate == ValidateCall

SpecValidate == InitValidate /\ [][NextValidate]_vars

\* ------------------------------- wait_for_collection_index, on its own
\* What a status lookup can give: a CollectionStatus, or "fail" when
\* get_collection raises.
Statuses == {"green", "yellow", "red", "grey", "fail"}
NeverGreen == {"yellow", "red", "grey"}

\* Beyond any elapsed time the loop can reach; it only keeps the clock finite.
ElapsedCap == MaxTimeout + 2 * (SleepSeconds + MaxLookup)

\* The call: start_time = time(), nothing looked up yet.
PollerCall ==
    /\ poller.pc = "idle"
    /\ \E t \in 0..MaxTimeout :
        poller' = [pc |-> "polling", timeout |-> t, elapsed |-> 0, seen |-> <<>>,
                   sleeps |-> 0, warned |-> FALSE]
    /\ UNCHANGED <<appVars, storeVars, uploadVars, search, validation, benchVars, jobVars>>

\* One turn of the loop against a store whose lookups give a status of
\* `statuses` after d seconds: get_collection, the GREEN test, the timeout
\* test on time() - start_time, sleep(5.0).
PollTurnIn(statuses) ==
    /\ poller.pc = "polling"
    /\ poller.elapsed <= ElapsedCap
    /\ \E st \in statuses, d \in 0..MaxLookup :
        LET el == poller.elapsed + d
            turn == WaitTurn(st, el, poller.timeout)
            looked == [poller EXCEPT !.seen = Append(@, st), !.elapsed = el]
        IN poller' =
            IF turn = "raise" THEN [looked EXCEPT !.pc = "raised"]
            ELSE IF turn = "green" THEN [looked EXCEPT !.pc = "returned"]
            ELSE IF turn = "timeout"
                 THEN [looked EXCEPT !.pc = "returned", !.warned = TRUE]
            ELSE [looked EXCEPT !.elapsed = el + SleepSeconds, !.sleeps = @ + 1]
    /\ UNCHANGED <<appVars, storeVars, uploadVars, search, validation, benchVars, jobVars>>

PollTurn == PollTurnIn(Statuses)
PollTurnStuck == PollTurnIn(NeverGreen)

InitPoller ==
    /\ points = {}
    /\ pending = {}
    /\ schema = UploadSchema
    /\ UploadIdle
    /\ AppIdle
    /\ JobsIdle
    /\ ToolsIdle
    /\ search = NoSearch
    /\ validation = NoValidation

NextPoller == PollerCall \/ PollTurn

SpecPoller == InitPoller /\ [][NextPoller]_vars

\* The same call against a store that never reports GREEN and whose lookups
\* always return; the loop keeps running while the call has not returned.
NextPollerStuck == PollerCall \/ PollTurnStuck

SpecPollerStuck ==
    InitPoller /\ [][NextPollerStuck]_vars /\ WF_vars(PollTurnStuck)

\* ------------------------------------------- run_benchmark (benchmark_vdb)
\* The measured calls are the coroutines of `tasks`, numbered in list order;
\* bench.task[i] is "waiting" (not past `async with sem`), "running" (inside
\* search_points), "done" or "failed".  bench.completed is the order in which
\* they finished, which is the order as_completed hands them out;
\* bench.latencies names, for each recorded sample, the call it measured.

\* BenchmarkArgs as args_parser lets them through.
BenchArgs == [runs : 1..MaxRuns, warmup : 0..MaxWarmup, concurrency : 1..MaxConcurrency]

\* `if warmup > 0: for _ in range(warmup)`: the number of warmup calls.
WarmupCallsSkipped(w) == 0
WarmupCalls(w) == IF w > 0 THEN w ELSE 0

\* asyncio.Semaphore: acquire passes without waiting while the value is positive.
SemAlwaysFree(value) == TRUE
SemFree(value) == value > 0

\* as_completed followed by `await coro`: the call whose sample comes next,
\* with n samples recorded so far.
NextSampleNewest(completed, n) == completed[Len(completed)]
NextSample(completed, n) == completed[n + 1]

BenchCall ==
    /\ bench.phase = "idle"
    /\ \E a \in BenchArgs :
        bench' = [NoBench EXCEPT !.phase = "warmup", !.runs = a.runs,
                                 !.warmup = a.warmup, !.concurrency = a.concurrency]
    /\ UNCHANGED <<appVars, storeVars, uploadVars, search, validation, poller, stats, jobVars>>

\* The warmup loop awaits each search_points before the next iteration.
WarmStart ==
    /\ bench.phase = "warmup"
    /\ ~bench.warmBusy
    /\ bench.warmStarted < WarmupCalls(bench.warmup)
    /\ bench' = [bench EXCEPT !.warmBusy = TRUE, !.warmStarted = @ + 1]
    /\ UNCHANGED <<appVars, storeVars, uploadVars, search, validation, poller, stats, jobVars>>

\* The awaited warmup call returns (its result is dropped) or raises, and the
\* exception leaves run_benchmark.
WarmReturn ==
    /\ bench.phase = "warmup"
    /\ bench.warmBusy
    /\ \/ bench' = [bench EXCEPT !.warmBusy = FALSE, !.warmDone = @ + 1]
       \/ bench' = [bench EXCEPT !.warmBusy = FALSE, !.phase = "raised",
                                 !.err = "SearchError"]
    /\ UNCHANGED <<appVars, storeVars, uploadVars, search, validation, poller, stats, jobVars>>

\* The semaphore and the coroutines are created, as_completed schedules them.
BeginMeasure ==
    /\ bench.phase = "warmup"
    /\ ~bench.warmBusy
    /\ bench.warmStarted = WarmupCalls(bench.warmup)
    /\ bench' = [bench EXCEPT !.phase = "measure", !.sem = bench.concurrency,
                              !.task = [i \in 1..bench.runs |-> "waiting"]]
    /\ UNCHANGED <<appVars, storeVars, uploadVars, search, validation, poller, stats, jobVars>>

\* A task passes `async with sem` and calls search_points.
TaskStart ==
    /\ bench.phase = "measure"
    /\ \E i \in 1..bench.runs :
        /\ bench.task[i] = "waiting"
        /\ SemFree(bench.sem)
        /\ bench' = [bench EXCEPT !.task[i] = "running", !.sem = @ - 1]
    /\ UNCHANGED <<appVars, storeVars, uploadVars, search, validation, poller, stats, jobVars>>

\* search_points of a task returns or raises; the semaphore is released and
\* the task finishes, with its latency or with the exception.
TaskReturn ==
    /\ bench.phase = "measure"
    /\ \E i \in 1..bench.runs, r \in {"done", "failed"} :
        /\ bench.task[i] = "running"
        /\ bench' = [bench EXCEPT !.task[i] = r, !.sem = @ + 1,
                                  !.completed = Append(@, i)]
    /\ UNCHANGED <<appVars, storeVars, uploadVars, search, validation, poller, stats, jobVars>>

\* One iteration of `for i, coro in enumerate(as_completed(tasks))`: the
\* awaited task's latency is appended, or its exception leaves run_benchmark.
\* After the last one the statistics are computed; statistics.quantiles needs
\* two samples (before Python 3.13 it raises StatisticsError on one).
Collect ==
    /\ bench.phase = "measure"
    /\ Len(bench.latencies) < Len(bench.completed)
    /\ LET k == NextSample(bench.completed, Len(bench.latencies))
           got == [bench EXCEPT !.latencies = Append(@, k)]
       IN IF bench.task[k] = "failed"
          THEN bench' = [bench EXCEPT !.phase = "raised", !.err = "SearchError"]
          ELSE IF Len(got.latencies) < bench.runs THEN bench' = got
          ELSE \/ /\ Len(got.latencies) >= 2
                  /\ bench' = [got EXCEPT !.phase = "done"]
               \/ /\ Len(got.latencies) < 2
                  /\ \/ bench' = [got EXCEPT !.phase = "done"]
                     \/ bench' = [got EXCEPT !.phase = "raised",
                                             !.err = "StatisticsError"]
    /\ UNCHANGED <<appVars, storeVars, uploadVars, search, validation, poller, stats, jobVars>>

InitBench == InitPoller

NextBench ==
    \/ BenchCall
    \/ WarmStart
    \/ WarmReturn
    \/ BeginMeasure
    \/ TaskStart
    \/ TaskReturn
    \/ Collect

SpecBench == InitBench /\ [][NextBench]_vars

\* ------------------------------ the statistics of run_benchmark, applied
\* Latencies are whole milliseconds here.  A quantile is kept as its
\* numerator over the number of cut intervals n (p95 over 20, p99 over 100),
\* the mean as the sum of the sample, so that no rounding hides a difference.
RECURSIVE SumSeq(_)
SumSeq(sq) == IF sq = <<>> THEN 0 ELSE Head(sq) + SumSeq(Tail(sq))

Sorted(data) == SortSeq(data, LAMBDA a, b : a < b)

\* statistics.quantiles(data, n=n)[i - 1] with the default method
\* 'exclusive', times n, for at least two samples:
\*   m = ld + 1; j = i * m // n, clamped to 1 .. ld - 1; delta = i * m - j * n
\*   (data[j - 1] * (n - delta) + data[j] * delta) / n      on the sorted data
QuantileTimesN(data, n, i) ==
    LET sd == Sorted(data)
        ld == Len(data)
        m == ld + 1
        j0 == (i * m) \div n
        j == IF j0 < 1 THEN 1 ELSE IF j0 > ld - 1 THEN ld - 1 ELSE j0
        delta == i * m - j * n
    IN sd[j] * (n - delta) + sd[j + 1] * delta

\* mean, p95 and p99 of run_benchmark.  With one sample statistics.quantiles
\* raises StatisticsError before Python 3.13 and gives the sample from 3.13 on.
ComputeStats ==
    /\ ~stats.computed
    /\ LET d == stats.data
           seen == [stats EXCEPT !.computed = TRUE, !.sum = SumSeq(d)]
       IN IF Len(d) >= 2
          THEN stats' = [seen EXCEPT !.p95 = QuantileTimesN(d, 20, 19),
                                     !.p99 = QuantileTimesN(d, 100, 99)]
          ELSE \/ stats' = [seen EXCEPT !.err = "StatisticsError"]
               \/ stats' = [seen EXCEPT !.p95 = 20 * d[1], !.p99 = 100 * d[1]]
    /\ UNCHANGED <<appVars, storeVars, uploadVars, search, validation, poller, bench, jobVars>>

\* The samples of a finished measured phase: one per run, args_parser lets
\* no run count below 1 through.
Samples == UNION {[1..n -> 1..MaxLatency] : n \in 1..MaxSamples}

InitStats ==
    /\ points = {}
    /\ pending = {}
    /\ schema = UploadSchema
    /\ UploadIdle
    /\ AppIdle
    /\ JobsIdle
    /\ poller = NoPoller /\ bench = NoBench
    /\ search = NoSearch
    /\ validation = NoValidation
    /\ stats \in {[NoStats EXCEPT !.data = d] : d \in Samples}

NextStats == ComputeStats

SpecStats == InitStats /\ [][NextStats]_vars

\* --------------------------------- create_collection, delete_collection
\* The store holds collections by name; admin.requests are the requests the
\* call in progress (or the last one) has sent to the store.
CollNames == {"articles", "scratch"}
Distances == {"Cosine", "Euclid", "Dot", "Manhattan"}

\* vector_configs: a dict name -> (size, distance), possibly empty.
VectorConfigs == UNION {[S -> [size : Dims, distance : Distances]] : S \in SUBSET Names}
CreateArgs == [vector_configs : VectorConfigs, use_quantization : BOOLEAN]

\* ScalarQuantization(scalar=ScalarQuantizationConfig(type=INT8, quantile=0.99,
\* always_ram=True)); the quantile is kept in hundredths.
NoQuantization == [kind |-> "none"]
ScalarInt8 == [kind |-> "scalar", type |-> "int8", quantile |-> 99, always_ram |-> TRUE]

\* The keyword arguments of client.create_collection that depend on
\* vector_configs and use_quantization (hnsw_m, replication_factor and
\* shard_number are handed on as given).
CreateRequestInMemory(name, a) ==
    [kind |-> "create", collection_name |-> name,
     vectors_config |-> [n \in DOMAIN a.vector_configs |->
                            [size |-> a.vector_configs[n].size,
                             distance |-> a.vector_configs[n].distance,
                             on_disk |-> FALSE]],
     quantization_config |-> IF a.use_quantization THEN ScalarInt8 ELSE NoQuantization,
     hnsw_on_disk |-> FALSE]
CreateRequest(name, a) ==
    [kind |-> "create", collection_name |-> name,
     vectors_config |-> [n \in DOMAIN a.vector_configs |->
                            [size |-> a.vector_configs[n].size,
                             distance |-> a.vector_configs[n].distance,
                             on_disk |-> a.use_quantization]],
     quantization_config |-> IF a.use_quantization THEN ScalarInt8 ELSE NoQuantization,
     hnsw_on_disk |-> FALSE]

\* create_collection up to `await self.client.create_collection(...)`.
CreateCall ==
    /\ admin.pc # "awaiting"
    /\ \E name \in CollNames, a \in CreateArgs :
        admin' = [NoAdmin EXCEPT !.op = "create", !.pc = "awaiting", !.name = name,
                                 !.args = a, !.requests = <<CreateRequest(name, a)>>]
    /\ UNCHANGED <<appVars, storeVars, uploadVars, search, validation, poller, benchVars,
                   collections, etl, token>>

\* The store creates the collection, or raises (always, when it holds one of
\* that name); the exception leaves create_collection.
CreateReply ==
    /\ admin.pc = "awaiting" /\ admin.op = "create"
    /\ \/ /\ admin.name \notin collections
          /\ collections' = collections \cup {admin.name}
          /\ admin' = [admin EXCEPT !.pc = "returned", !.logged = "info"]
       \/ /\ \E e \in StoreErrors : admin' = [admin EXCEPT !.pc = "raised", !.err = e]
          /\ UNCHANGED collections
    /\ UNCHANGED <<appVars, storeVars, uploadVars, search, validation, poller, benchVars, etl, token>>

\* delete_collection after the store returned `status`: the outcome is logged.
DeleteStatusRaises(ad, st) ==
    IF st THEN [ad EXCEPT !.pc = "returned", !.status = "true", !.logged = "info"]
    ELSE [ad EXCEPT !.pc = "raised", !.status = "false", !.err = "DeleteFailed"]
DeleteStatus(ad, st) ==
    IF st THEN [ad EXCEPT !.pc = "returned", !.status = "true", !.logged = "info"]
    ELSE [ad EXCEPT !.pc = "returned", !.status = "false", !.logged = "warning"]

\* delete_collection up to `await self.client.delete_collection(...)`.
DeleteCall ==
    /\ admin.pc # "awaiting"
    /\ \E name \in CollNames :
        admin' = [NoAdmin EXCEPT !.op = "delete", !.pc = "awaiting", !.name = name,
                                 !.requests = <<[kind |-> "delete", collection_name |-> name]>>]
    /\ UNCHANGED <<appVars, storeVars, uploadVars, search, validation, poller, benchVars,
                   collections, etl, token>>

\* The store deletes the collection and answers true, answers false without
\* deleting, or raises; the exception leaves delete_collection.
DeleteReply ==
    /\ admin.pc = "awaiting" /\ admin.op = "delete"
    /\ \/ /\ collections' = collections \ {admin.name}
          /\ admin' = DeleteStatus(admin, TRUE)
       \/ /\ admin' = DeleteStatus(admin, FALSE)
          /\ UNCHANGED collections
       \/ /\ \E e \in StoreErrors : admin' = [admin EXCEPT !.pc = "raised", !.err = e]
          /\ UNCHANGED collections
    /\ UNCHANGED <<appVars, storeVars, uploadVars, search, validation, poller, benchVars, etl, token>>

InitAdmin ==
    /\ points = {}
    /\ pending = {}
    /\ schema = UploadSchema
    /\ UploadIdle
    /\ AppIdle
    /\ ToolsIdle
    /\ collections \in SUBSET CollNames
    /\ admin = NoAdmin /\ etl = NoEtl /\ token = NoToken
    /\ search = NoSearch
    /\ validation = NoValidation

NextAdmin == CreateCall \/ CreateReply \/ DeleteCall \/ DeleteReply

SpecAdmin == InitAdmin /\ [][NextAdmin]_vars

\* ------------------------------------------------- etl_vectordb.main
\* The job runs its steps in order; etl.pc is the step to run next, etl.ran
\* the steps started so far, etl.exit the exit status of the process (-1
\* while it runs).  The target collection is "articles".
EtlTarget == "articles"

\* The step that follows step `st` when it returns; collection_exists
\* returned `exists`.
EtlNext(st, exists) ==
    CASE st = "load_config" -> "api_key"
      [] st = "api_key" -> "collection_exists"
      [] st = "collection_exists" ->
            IF exists THEN "get_collection_info" ELSE "create_collection"
      [] st = "create_collection" -> "get_collection_info"
      [] st = "get_collection_info" -> "load_sql_template"
      [] st = "load_sql_template" -> "get_bq_data"
      [] st = "get_bq_data" -> "upload"
      [] st = "upload" -> "count_points"
      [] OTHER -> "exited"

\* What a step can raise: load_config and the SQL template read files, the
\* data fetch talks to BigQuery, the others to the store.
EtlErrors(st) ==
    CASE st = "load_config" -> {"FileNotFoundError", "ValidationError"}
      [] st = "api_key" -> {"MissingApiKey"}
      [] st = "load_sql_template" -> {"FileNotFoundError"}
      [] st = "get_bq_data" -> {"GoogleAPIError"}
      [] OTHER -> StoreErrors

\* A step raised: the except clauses of main (or the one around asyncio.run,
\* for what main does not catch) log the error and call sys.exit(1).
EtlExceptContinues(j, e) ==
    [j EXCEPT !.failed = j.pc, !.err = e, !.pc = EtlNext(j.pc, TRUE),
              !.exit = IF EtlNext(j.pc, TRUE) = "exited" THEN 1 ELSE -1]
EtlExcept(j, e) == [j EXCEPT !.failed = j.pc, !.err = e, !.pc = "exited", !.exit = 1]

EtlStart ==
    /\ etl.pc = "idle"
    /\ etl' = [etl EXCEPT !.pc = "load_config"]
    /\ UNCHANGED <<appVars, storeVars, uploadVars, search, validation, poller, benchVars,
                   adminVars, token>>

\* The next step runs: it returns, and the job moves on (to its end, exit
\* status 0, after count_points), or it raises.
EtlStep ==
    /\ etl.pc \notin {"idle", "exited"}
    /\ LET st == etl.pc
           started == [etl EXCEPT !.ran = Append(@, st)]
       IN \/ /\ etl' = [started EXCEPT
                            !.pc = EtlNext(st, EtlTarget \in collections),
                            !.exit = IF st = "count_points" THEN 0 ELSE -1]
             /\ collections' = IF st = "create_collection"
                               THEN collections \cup {EtlTarget} ELSE collections
          \/ /\ \E e \in EtlErrors(st) : etl' = EtlExcept(started, e)
             /\ UNCHANGED collections
    /\ UNCHANGED <<appVars, storeVars, uploadVars, search, validation, poller, benchVars,
                   admin, token>>

\* The user interrupts the job: KeyboardInterrupt, logged, sys.exit(0).
EtlInterrupt ==
    /\ etl.pc \notin {"idle", "exited"}
    /\ etl' = [etl EXCEPT !.pc = "exited", !.exit = 0, !.err = "KeyboardInterrupt"]
    /\ UNCHANGED <<appVars, storeVars, uploadVars, search, validation, poller, benchVars,
                   adminVars, token>>

InitEtl ==
    /\ points = {}
    /\ pending = {}
    /\ schema = UploadSchema
    /\ UploadIdle
    /\ AppIdle
    /\ ToolsIdle
    /\ collections \in SUBSET CollNames
    /\ admin = NoAdmin /\ etl = NoEtl /\ token = NoToken
    /\ search = NoSearch
    /\ validation = NoValidation

NextEtl == EtlStart \/ EtlStep \/ EtlInterrupt

SpecEtl == InitEtl /\ [][NextEtl]_vars

\* ------------------------------------------------------- TokenManager
\* token.cached and token.expiry are _token and _expiry: <<>> for None, a
\* one-element sequence otherwise.  Tokens are numbered in fetch order.
\* token.lost holds the tokens dropped by a failed refresh, token.cleared the
\* ones dropped by clear_token; token.last is the last call and its outcome.

\* _needs_refresh
NeedsRefreshStrict(cached, expiry, now, buffer) ==
    cached = <<>> \/ expiry = <<>> \/ expiry[1] - now < buffer
NeedsRefresh(cached, expiry, now, buffer) ==
    cached = <<>> \/ expiry = <<>> \/ expiry[1] - now <= buffer

\* How _refresh_token can go: fetch_id_token returns a token; it raises
\* GoogleAuthError and the gcloud fallback returns one; both fail; it raises
\* another exception; the token is empty; the token has no decodable expiry.
RefreshOutcomes == {"google_ok", "gcloud_ok", "both_fail", "fetch_error", "empty",
                    "undecodable"}

\* The except clauses of _refresh_token: the fields are reset, GoogleAuthError
\* is raised.
RefreshExceptKeeps(t) == [t EXCEPT !.last.err = "GoogleAuthError"]
RefreshExcept(t) ==
    [t EXCEPT !.cached = <<>>, !.expiry = <<>>, !.last.err = "GoogleAuthError",
              !.lost = @ \cup Range(t.cached)]

\* clear_token
ClearFieldsKept(t) == [t EXCEPT !.cleared = @ \cup Range(t.cached)]
ClearFields(t) ==
    [t EXCEPT !.cached = <<>>, !.expiry = <<>>, !.cleared = @ \cup Range(t.cached)]

\* get_token, under the lock: refresh when needed, then return _token.
GetToken ==
    /\ token.pc = "ready"
    /\ LET need == NeedsRefresh(token.cached, token.expiry, token.now, token.buffer)
           call == [token EXCEPT !.sinceClear = FALSE,
                                 !.last = [NoCall EXCEPT !.op = "get_token",
                                                         !.needed = need,
                                                         !.afterClear = token.sinceClear]]
       IN IF ~need
          THEN token' = [call EXCEPT !.last.result = token.cached]
          ELSE /\ token.fetches < MaxFetches
               /\ \E o \in RefreshOutcomes, life \in 0..MaxLife :
                   LET new == token.fetches + 1
                       fetched == [call EXCEPT !.fetches = new, !.last.refreshed = TRUE]
                   IN token' =
                       IF o \in {"google_ok", "gcloud_ok"}
                       THEN [fetched EXCEPT !.cached = <<new>>,
                                            !.expiry = <<token.now + life>>,
                                            !.last.result = <<new>>]
                       ELSE IF o = "undecodable"
                       THEN RefreshExcept([fetched EXCEPT !.cached = <<new>>])
                       ELSE RefreshExcept(fetched)
    /\ UNCHANGED <<appVars, storeVars, uploadVars, search, validation, poller, benchVars,
                   adminVars, etl>>

ClearToken ==
    /\ token.pc = "ready"
    /\ token' = [ClearFields(token) EXCEPT !.sinceClear = TRUE,
                                           !.last = [NoCall EXCEPT !.op = "clear_token"]]
    /\ UNCHANGED <<appVars, storeVars, uploadVars, search, validation, poller, benchVars,
                   adminVars, etl>>

\* time.time() moves on.
Tick ==
    /\ token.pc = "ready"
    /\ token.now < MaxNow
    /\ token' = [token EXCEPT !.now = @ + 1]
    /\ UNCHANGED <<appVars, storeVars, uploadVars, search, validation, poller, benchVars,
                   adminVars, etl>>

\* A TokenManager as its constructor leaves it.
InitToken ==
    /\ points = {}
    /\ pending = {}
    /\ schema = UploadSchema
    /\ UploadIdle
    /\ AppIdle
    /\ ToolsIdle
    /\ collections = {} /\ admin = NoAdmin /\ etl = NoEtl
    /\ search = NoSearch
    /\ validation = NoValidation
    /\ token \in {[NoToken EXCEPT !.pc = "ready", !.buffer = b] : b \in 0..MaxBuffer}

NextToken == GetToken \/ ClearToken \/ Tick

SpecToken == InitToken /\ [][NextToken]_vars

\* _needs_refresh applied to any contents of the fields, as the unit tests
\* set them.
NeedsRefreshCall ==
    /\ token.pc = "ready" /\ token.last.op = "none"
    /\ token' = [token EXCEPT
                    !.last = [NoCall EXCEPT
                                !.op = "_needs_refresh",
                                !.needed = NeedsRefresh(token.cached, token.expiry,
                                                        token.now, token.buffer)]]
    /\ UNCHANGED <<appVars, storeVars, uploadVars, search, validation, poller, benchVars,
                   adminVars, etl>>

InitNeedsRefresh ==
    /\ points = {}
    /\ pending = {}
    /\ schema = UploadSchema
    /\ UploadIdle
    /\ AppIdle
    /\ ToolsIdle
    /\ collections = {} /\ admin = NoAdmin /\ etl = NoEtl
    /\ search = NoSearch
    /\ validation = NoValidation
    /\ token \in {[NoToken EXCEPT !.pc = "ready", !.buffer = b, !.cached = c,
                                  !.expiry = x, !.now = n] :
                    b \in 0..MaxBuffer, c \in {<<>>, <<1>>},
                    x \in {<<>>} \cup {<<e>> : e \in 0..(MaxNow + MaxLife)},
                    n \in 0..MaxNow}

NextNeedsRefresh == NeedsRefreshCall

SpecNeedsRefresh == InitNeedsRefresh /\ [][NextNeedsRefresh]_vars

\* ------------------------------------- TokenManager shared by threads
\* threads.lock is self._lock: 0 when free, else the thread that holds it.
\* threads.th[t] is thread t: where it is in its one call, the call's result
\* and error, and the expiry of the token it fetched, if it fetched one.
\* The manager's fields are those of token, as above.
Threads == 1..MaxThreads

\* `with self._lock:` lets a thread in only when no thread holds the lock.
LockIgnored(l) == TRUE
LockFree(l) == l = 0

\* A thread calls get_token or clear_token.  Threads are numbered in the
\* order of their calls.
ThreadCall(t) ==
    /\ threads.th[t].pc = "idle"
    /\ \A u \in 1..(t - 1) : threads.th[u].pc # "idle"
    /\ \E op \in {"get_token", "clear_token"} :
         threads' = [threads EXCEPT !.th[t].pc = "acquire", !.th[t].op = op]
    /\ UNCHANGED <<storeVars, uploadVars, search, validation, poller, benchVars,
                   jobVars, hm, runner, evalq>>

Acquire(t) ==
    /\ threads.th[t].pc = "acquire"
    /\ LockFree(threads.lock)
    /\ threads' = [threads EXCEPT
                     !.lock = t,
                     !.th[t].pc = IF threads.th[t].op = "get_token" THEN "check"
                                  ELSE "clear"]
    /\ UNCHANGED <<storeVars, uploadVars, search, validation, poller, benchVars,
                   jobVars, hm, runner, evalq>>

\* get_token: `if self._needs_refresh():`
CheckRefresh(t) ==
    /\ threads.th[t].pc = "check"
    /\ threads' = [threads EXCEPT
                     !.th[t].pc = IF NeedsRefresh(token.cached, token.expiry,
                                                  token.now, token.buffer)
                                  THEN "fetch" ELSE "return"]
    /\ UNCHANGED <<storeVars, uploadVars, search, validation, poller, benchVars,
                   jobVars, hm, runner, evalq>>

\* An exception leaves the `with` block: the lock is released, the call ends.
Raised(t, e) ==
    [threads EXCEPT !.lock = IF @ = t THEN 0 ELSE @,
                    !.th[t].pc = "done", !.th[t].err = e]

\* _refresh_token up to `self._token = token`: the token is fetched and
\* stored, or the fetch fails or gives an empty token and the except clause
\* runs.
FetchToken(t) ==
    /\ threads.th[t].pc = "fetch"
    /\ \E o \in RefreshOutcomes \ {"undecodable"} :
         LET new == token.fetches + 1
             fetched == [token EXCEPT !.fetches = new]
         IN IF o \in {"google_ok", "gcloud_ok"}
            THEN /\ token' = [fetched EXCEPT !.cached = <<new>>]
                 /\ threads' = [threads EXCEPT !.th[t].pc = "expiry"]
            ELSE /\ token' = RefreshExcept(fetched)
                 /\ threads' = Raised(t, "GoogleAuthError")
    /\ UNCHANGED <<storeVars, uploadVars, search, validation, poller, benchVars,
                   adminVars, etl, hm, runner, evalq>>

\* `self._expiry = self._extract_token_expiry(token)`: the expiry is stored,
\* or the token cannot be decoded and the except clause runs.
ExtractExpiry(t) ==
    /\ threads.th[t].pc = "expiry"
    /\ \/ \E life \in 0..MaxLife :
            /\ token' = [token EXCEPT !.expiry = <<token.now + life>>]
            /\ threads' = [threads EXCEPT !.th[t].pc = "return",
                                          !.th[t].expiresAt = <<token.now + life>>]
       \/ /\ token' = RefreshExcept(token)
          /\ threads' = Raised(t, "GoogleAuthError")
    /\ UNCHANGED <<storeVars, uploadVars, search, validation, poller, benchVars,
                   adminVars, etl, hm, runner, evalq>>

\* get_token: `if self._token is None: raise RuntimeError`, `return self._token`
ReturnToken(t) ==
    /\ threads.th[t].pc = "return"
    /\ threads' = IF token.cached = <<>>
                  THEN Raised(t, "RuntimeError")
                  ELSE [threads EXCEPT !.lock = 0, !.th[t].pc = "done",
                                       !.th[t].result = token.cached]
    /\ UNCHANGED <<storeVars, uploadVars, search, validation, poller, benchVars,
                   jobVars, hm, runner, evalq>>

\* clear_token, under the lock
ClearShared(t) ==
    /\ threads.th[t].pc = "clear"
    /\ token' = ClearFields(token)
    /\ threads' = [threads EXCEPT !.lock = 0, !.th[t].pc = "done"]
    /\ UNCHANGED <<storeVars, uploadVars, search, validation, poller, benchVars,
                   adminVars, etl, hm, runner, evalq>>

\* time.time() moves on.  The clock is read by _needs_refresh, the first
\* step under the lock, and a token's expiry is any time from then on, so
\* the clock is advanced between critical sections.
TickShared ==
    /\ token.pc = "shared"
    /\ threads.lock = 0
    /\ token.now < MaxNow
    /\ token' = [token EXCEPT !.now = @ + 1]
    /\ UNCHANGED <<storeVars, uploadVars, search, validation, poller, benchVars,
                   adminVars, etl, appVars>>

\* A manager whose token is absent, or present (token 0) and due for refresh
\* (its remaining life equals the buffer), and threads that have not called
\* yet.
InitTokenThreads ==
    /\ points = {}
    /\ pending = {}
    /\ schema = UploadSchema
    /\ UploadIdle
    /\ ToolsIdle
    /\ collections = {} /\ admin = NoAdmin /\ etl = NoEtl
    /\ search = NoSearch
    /\ validation = NoValidation
    /\ \E b \in 0..MaxBuffer :
         token \in {[NoToken EXCEPT !.pc = "shared", !.buffer = b]}
                   \cup {[NoToken EXCEPT !.pc = "shared", !.buffer = b,
                                         !.cached = <<0>>, !.expiry = <<b>>]}
    /\ threads = [lock |-> 0, th |-> [t \in Threads |-> NoThread]]
    /\ hm = NoHm /\ runner = NoRunner /\ evalq = NoEvalq

NextTokenThreads ==
    \/ \E t \in Threads :
         \/ ThreadCall(t) \/ Acquire(t) \/ CheckRefresh(t) \/ FetchToken(t)
         \/ ExtractExpiry(t) \/ ReturnToken(t) \/ ClearShared(t)
    \/ TickShared

SpecTokenThreads == InitTokenThreads /\ [][NextTokenThreads]_vars

\* ---------------------------------------------------- HMParallelAgent
\* A dict is the sequence of its <<key, value>> pairs in insertion order.
\* hm.hist[a] is what sub-agent a has emitted so far, hm.finished the
\* sub-agents that are done, hm.outputs the three local variables
\* query_*_output, hm.events what _run_async_impl has yielded.  The events of
\* the three sub-agents reach the loop in any order.
SubAgents == {"moderator", "expander", "router"}
OutputKey(a) == "query_" \o a \o "_output"

\* What the output schema of each sub-agent can hold.
OutputsOf(a) ==
    IF a = "moderator" THEN {<< <<"block", FALSE>> >>, << <<"block", TRUE>> >>}
    ELSE IF a = "expander" THEN {<< <<"queries", <<"black dress">> >> >>,
                                 << <<"queries", <<"dress", "black dress">> >> >>}
    ELSE {<< <<"group", "ladies">> >>, << <<"group", "men">> >>}

\* An event of a sub-agent: without a state delta, or with its output stored
\* under its output_key.
SubAgentEvents(a) ==
    {[author |-> a, state_delta |-> <<>>]}
    \cup {[author |-> a, state_delta |-> << <<OutputKey(a), v>> >>] : v \in OutputsOf(a)}

DictKeys(d) == {d[i][1] : i \in 1..Len(d)}
DictGet(d, k) == d[CHOOSE i \in 1..Len(d) : d[i][1] = k][2]

\* Python's d | e
DictUnion(d, e) ==
    [i \in 1..Len(d) |-> IF d[i][1] \in DictKeys(e) THEN <<d[i][1], DictGet(e, d[i][1])>>
                         ELSE d[i]]
    \o SelectSeq(e, LAMBDA kv : kv[1] \notin DictKeys(d))

\* json.dumps of a dict, as a sequence of tokens
RECURSIVE JsonMembers(_)
JsonMembers(d) ==
    IF d = <<>> THEN <<>>
    ELSE <<d[1][1], ":", d[1][2]>> \o (IF Len(d) > 1 THEN <<",">> ELSE <<>>)
         \o JsonMembers(Tail(d))
JsonDumps(d) == <<"{">> \o JsonMembers(d) \o <<"}">>

\* The body of the loop: a key present in the state delta replaces the local
\* variable of that key.
ObserveKeepsFirst(outputs, ev) ==
    [k \in DOMAIN outputs |->
        IF k \in DictKeys(ev.state_delta) /\ outputs[k] = <<>>
        THEN DictGet(ev.state_delta, k) ELSE outputs[k]]
Observe(outputs, ev) ==
    [k \in DOMAIN outputs |->
        IF ev.state_delta # <<>> /\ k \in DictKeys(ev.state_delta)
        THEN DictGet(ev.state_delta, k) ELSE outputs[k]]

\* The event yielded after the loop.
OwnEvent(outputs) ==
    [author |-> "hm_agent",
     text |-> JsonDumps(DictUnion(DictUnion(outputs["query_moderator_output"],
                                            outputs["query_expander_output"]),
                                  outputs["query_router_output"])),
     state_delta |-> outputs]

HmStart ==
    /\ hm.pc = "ready"
    /\ hm' = [hm EXCEPT !.pc = "running"]
    /\ UNCHANGED <<storeVars, uploadVars, search, validation, poller, benchVars,
                   jobVars, threads, runner, evalq>>

\* One more event of some sub-agent comes out of parallel_agent.run_async.
SubAgentEvent(a) ==
    /\ hm.pc = "running"
    /\ a \notin hm.finished
    /\ Len(hm.hist[a]) < MaxEvents
    /\ \E ev \in SubAgentEvents(a) :
         hm' = [hm EXCEPT !.hist[a] = Append(@, ev),
                          !.outputs = Observe(@, ev)]
    /\ UNCHANGED <<storeVars, uploadVars, search, validation, poller, benchVars,
                   jobVars, threads, runner, evalq>>

SubAgentFinish(a) ==
    /\ hm.pc = "running"
    /\ a \notin hm.finished
    /\ hm' = [hm EXCEPT !.finished = @ \cup {a}]
    /\ UNCHANGED <<storeVars, uploadVars, search, validation, poller, benchVars,
                   jobVars, threads, runner, evalq>>

\* A sub-agent raises (its output fails validation): the exception leaves
\* _run_async_impl.
SubAgentRaise(a) ==
    /\ hm.pc = "running"
    /\ a \notin hm.finished
    /\ hm' = [hm EXCEPT !.pc = "raised"]
    /\ UNCHANGED <<storeVars, uploadVars, search, validation, poller, benchVars,
                   jobVars, threads, runner, evalq>>

\* The loop is over: the agent yields its own event.
HmYield ==
    /\ hm.pc = "running"
    /\ hm.finished = SubAgents
    /\ hm' = [hm EXCEPT !.pc = "yielded", !.events = Append(@, OwnEvent(hm.outputs))]
    /\ UNCHANGED <<storeVars, uploadVars, search, validation, poller, benchVars,
                   jobVars, threads, runner, evalq>>

InitHm ==
    /\ points = {}
    /\ pending = {}
    /\ schema = UploadSchema
    /\ UploadIdle
    /\ ToolsIdle
    /\ JobsIdle
    /\ search = NoSearch
    /\ validation = NoValidation
    /\ threads = NoThreads /\ runner = NoRunner /\ evalq = NoEvalq
    /\ hm = [NoHm EXCEPT !.pc = "ready",
                         !.hist = [a \in SubAgents |-> <<>>],
                         !.outputs = [k \in {OutputKey(a) : a \in SubAgents} |-> <<>>]]

NextHm ==
    \/ HmStart
    \/ \E a \in SubAgents : SubAgentEvent(a) \/ SubAgentFinish(a) \/ SubAgentRaise(a)
    \/ HmYield

SpecHm == InitHm /\ [][NextHm]_vars

\* -------------------------------------------------------- AgentRunner
\* runner.sessions is the InMemorySessionService: a function from the
\* <<user_id, session_id>> of each session it holds to the session's state
\* and events.  runner.call is the call in progress or last finished, with
\* one entry in call.attempts per invocation of runner.run_async;
\* runner.before is the session service as the call found it.
SessionKeys == {<<"u1", "s1">>, <<"u1", "s2">>}
Queries == {"black dress"}
Kwargs == {[country_name |-> "US"], [country_name |-> "SE"]}

DefaultResponse == "Agent did not produce a final response."
GaveUpResponse == "Agent failed to produce valid output after multiple retries."
Feedback == "Your previous response failed validation"

\* session_service.create_session / delete_session
CreateSession(ss, k, state) ==
    [j \in DOMAIN ss \cup {k} |-> IF j = k THEN [state |-> state, events |-> <<>>]
                                  ELSE ss[j]]
DeleteSession(ss, k) == [j \in DOMAIN ss \ {k} |-> ss[j]]

\* The state_delta of the first attempt
InitialStateDelta(query) ==
    [current_user_query |-> query, outputs |-> "empty"]

\* Runner.run_async appends the new message to the session and applies the
\* state delta to its state.
AppendUserEvent(sess, content, delta) ==
    [state |-> [k \in DOMAIN sess.state \cup DOMAIN delta |->
                   IF k \in DOMAIN delta THEN delta[k] ELSE sess.state[k]],
     events |-> Append(sess.events, "user")]

\* The agent's final event, stored in the session with its state delta
AppendAgentEvent(sess) ==
    [state |-> [k \in DOMAIN sess.state \cup {"outputs"} |->
                   IF k = "outputs" THEN "set" ELSE sess.state[k]],
     events |-> Append(sess.events, "hm_agent")]

\* How one invocation of the agent can end (a text is <<>> for None, else a
\* one-element sequence): with a final event (with text,
\* with a text of None, escalating with or without an error message, or
\* with neither), without one, or with an exception.
FinalEvents ==
    {[final |-> TRUE, parts |-> << <<"{}">> >>, escalate |-> FALSE, error_message |-> <<>>],
     [final |-> TRUE, parts |-> << <<>> >>, escalate |-> FALSE, error_message |-> <<>>],
     [final |-> TRUE, parts |-> <<>>, escalate |-> TRUE, error_message |-> <<"stop">>],
     [final |-> TRUE, parts |-> <<>>, escalate |-> TRUE, error_message |-> <<>>],
     [final |-> TRUE, parts |-> <<>>, escalate |-> FALSE, error_message |-> <<>>],
     [final |-> FALSE, parts |-> <<>>, escalate |-> FALSE, error_message |-> <<>>]}
RunErrors == {"ValidationError", "RuntimeError"}

\* final_response_text after the loop over the events
FinalResponseText(ev) ==
    IF ~ev.final THEN DefaultResponse
    ELSE IF ev.parts # <<>> THEN (IF ev.parts[1] = <<>> THEN "" ELSE ev.parts[1][1])
    ELSE IF ev.escalate
         THEN "Agent escalated: " \o (IF ev.error_message = <<>> THEN "No specific message."
                                      ELSE ev.error_message[1])
    ELSE DefaultResponse

\* except ValidationError, on an attempt that is not the last: the next
\* attempt gets the feedback message and an empty state delta.
RetryKeepsDelta(c) == [c EXCEPT !.content = Feedback]
Retry(c) == [c EXCEPT !.content = Feedback, !.state_delta = <<>>]

\* The attempts the loop `for attempt in range(max_retries + 1)` allows
AttemptsAllowed(max_retries) == max_retries + 1

\* run, up to the loop: the session is created when it does not exist.
RunCall ==
    /\ runner.pc \in {"ready", "returned", "raised"}
    /\ runner.calls < MaxCalls
    /\ \E k \in SessionKeys, q \in Queries, mr \in (0 - 1)..MaxRetries, kw \in Kwargs :
         LET ss == IF k \in DOMAIN runner.sessions THEN runner.sessions
                   ELSE CreateSession(runner.sessions, k, kw)
             c == [NoRun EXCEPT !.op = "run", !.key = k, !.query = q,
                                !.max_retries = mr, !.content = q,
                                !.state_delta = InitialStateDelta(q)]
         IN runner' =
              IF AttemptsAllowed(mr) <= 0
              THEN [runner EXCEPT !.pc = "returned", !.sessions = ss,
                                  !.before = runner.sessions, !.calls = @ + 1,
                                  !.call = [c EXCEPT !.result = <<GaveUpResponse>>]]
              ELSE [runner EXCEPT !.pc = "attempt", !.sessions = ss,
                                  !.before = runner.sessions, !.calls = @ + 1,
                                  !.call = c]
    /\ UNCHANGED <<storeVars, uploadVars, search, validation, poller, benchVars,
                   jobVars, threads, hm, evalq>>

\* One turn of the loop whose invocation ends with the event ev.
AttemptReturns ==
    /\ runner.pc = "attempt"
    /\ \E ev \in FinalEvents :
         LET c == runner.call
             sess == AppendUserEvent(runner.sessions[c.key], c.content, c.state_delta)
             done == IF ev.final THEN AppendAgentEvent(sess) ELSE sess
         IN runner' = [runner EXCEPT
                         !.pc = "returned",
                         !.sessions[c.key] = done,
                         !.call.attempts = Append(@, [content |-> c.content,
                                                      state_delta |-> c.state_delta,
                                                      outcome |-> "ok"]),
                         !.call.result = <<FinalResponseText(ev)>>]
    /\ UNCHANGED <<storeVars, uploadVars, search, validation, poller, benchVars,
                   jobVars, threads, hm, evalq>>

\* One turn of the loop whose invocation raises.
AttemptRaises ==
    /\ runner.pc = "attempt"
    /\ \E e \in RunErrors :
         LET c == runner.call
             sess == AppendUserEvent(runner.sessions[c.key], c.content, c.state_delta)
             tried == [c EXCEPT !.attempts = Append(@, [content |-> c.content,
                                                        state_delta |-> c.state_delta,
                                                        outcome |-> e])]
         IN runner' =
              IF e = "ValidationError" /\ Len(tried.attempts) < AttemptsAllowed(c.max_retries)
              THEN [runner EXCEPT !.sessions[c.key] = sess, !.call = Retry(tried)]
              ELSE [runner EXCEPT !.pc = "raised", !.sessions[c.key] = sess,
                                  !.call = [tried EXCEPT !.err = e]]
    /\ UNCHANGED <<storeVars, uploadVars, search, validation, poller, benchVars,
                   jobVars, threads, hm, evalq>>

\* clear_history_only
ClearHistoryKeepsEvents(ss, k) == ss
ClearHistory(ss, k) ==
    IF k \in DOMAIN ss
    THEN CreateSession(DeleteSession(ss, k), k, ss[k].state)
    ELSE ss

ClearHistoryOnly ==
    /\ runner.pc \in {"ready", "returned", "raised"}
    /\ \E k \in SessionKeys :
         runner' = [runner EXCEPT
                      !.sessions = ClearHistory(runner.sessions, k),
                      !.before = runner.sessions,
                      !.call = [NoRun EXCEPT !.op = "clear_history_only", !.key = k]]
    /\ UNCHANGED <<storeVars, uploadVars, search, validation, poller, benchVars,
                   jobVars, threads, hm, evalq>>

\* reset_session
ResetSession ==
    /\ runner.pc \in {"ready", "returned", "raised"}
    /\ \E k \in SessionKeys :
         runner' = [runner EXCEPT
                      !.sessions = DeleteSession(runner.sessions, k),
                      !.before = runner.sessions,
                      !.call = [NoRun EXCEPT !.op = "reset_session", !.key = k]]
    /\ UNCHANGED <<storeVars, uploadVars, search, validation, poller, benchVars,
                   jobVars, threads, hm, evalq>>

\* An AgentRunner as its constructor leaves it: no session.
InitRunner ==
    /\ points = {}
    /\ pending = {}
    /\ schema = UploadSchema
    /\ UploadIdle
    /\ ToolsIdle
    /\ JobsIdle
    /\ search = NoSearch
    /\ validation = NoValidation
    /\ threads = NoThreads /\ hm = NoHm /\ evalq = NoEvalq
    /\ runner = [NoRunner EXCEPT !.pc = "ready"]

NextRunner == RunCall \/ AttemptReturns \/ AttemptRaises \/ ClearHistoryOnly \/ ResetSession

SpecRunner == InitRunner /\ [][NextRunner]_vars

\* --------------------------------------- evaluate_queries.process_queries
\* evalq.tasks[i] is the coroutine process_single_query of the i-th valid
\* query: where it is, and its result once it has returned.  evalq.queue is
\* the number of tokens in the rate limiter's queue, evalq.produced how many
\* the producer has put.  A response is a sequence of tokens, as json.dumps
\* makes them, or a single token of plain text.
InputQueries == {"dress", " shoes ", " "}
Strip(q) == IF q = " shoes " THEN "shoes" ELSE IF q = " " THEN "" ELSE q
EvalConfigs ==
    [max_concurrent : {1, 2}, rate_limited : BOOLEAN, log_steps : {0, 1, 2},
     warmup_count : {0, 1}]
EvalLatencies == {1, 2}

\* What runner.run returns: the agent's JSON, or a text that is not JSON
AgentResponses ==
    {JsonDumps(<< <<"block", FALSE>>, <<"group", "men">> >>),
     <<DefaultResponse>>}

\* json.loads of a response: <<TRUE, dict>>, or <<FALSE>> for JSONDecodeError
RECURSIVE ParseMembers(_)
ParseMembers(toks) ==
    IF Len(toks) < 4 THEN <<>>
    ELSE << <<toks[1], toks[3]>> >> \o ParseMembers(SubSeq(toks, 5, Len(toks)))
JsonLoads(resp) ==
    IF Len(resp) >= 2 /\ resp[1] = "{" /\ resp[Len(resp)] = "}"
    THEN <<TRUE, ParseMembers(SubSeq(resp, 2, Len(resp)))>>
    ELSE <<FALSE>>

\* valid_queries
RECURSIVE ValidQueries(_)
ValidQueries(qs) ==
    IF qs = <<>> THEN <<>>
    ELSE (IF Strip(Head(qs)) # "" THEN <<Strip(Head(qs))>> ELSE <<>>)
         \o ValidQueries(Tail(qs))

\* The response process_single_query works with: what the run returned, or
\* the JSON of an error dict when the run raised.
ResponseOf(raised, resp) ==
    IF raised THEN JsonDumps(<< <<"error", "ERROR: agent run failed">> >>) ELSE resp

\* The dict process_single_query returns
ResultOf(query, latency, resp) ==
    DictUnion(<< <<"query", query>>, <<"latency_seconds", latency>> >>,
              IF JsonLoads(resp)[1] THEN JsonLoads(resp)[2]
              ELSE << <<"raw_response", resp>> >>)

\* `progress_counter[0] % log_steps == 0 or ...`: whether the condition can
\* be evaluated
ModuloDefined(log_steps) == log_steps # 0

\* calculate_and_log_stats: the AVERAGE row, appended when there are results;
\* the average is kept as <<total, count>>.
WithAverage(results) ==
    IF Len(results) > 0
    THEN Append(results,
                << <<"query", "AVERAGE">>,
                   <<"latency_seconds",
                     <<SumSeq([i \in 1..Len(results) |-> DictGet(results[i], "latency_seconds")]),
                       Len(results)>> >> >>)
    ELSE results

InFlight == {i \in 1..Len(evalq.tasks) : evalq.tasks[i].pc = "running"}

\* process_queries up to the warm-up: the configuration is loaded, or is
\* missing and [] is returned.
EvalStart ==
    /\ evalq.pc = "ready"
    /\ \/ evalq' = [evalq EXCEPT !.pc = "returned", !.err = "FileNotFoundError"]
       \/ LET valid == ValidQueries(evalq.queries)
          IN evalq' = [evalq EXCEPT
                         !.pc = "warmup",
                         !.valid_queries = valid,
                         !.warmLeft = IF evalq.cfg.warmup_count > 0 /\ valid # <<>>
                                      THEN Min(evalq.cfg.warmup_count, Len(valid))
                                      ELSE 0]
    /\ UNCHANGED <<storeVars, uploadVars, search, validation, poller, benchVars,
                   jobVars, threads, hm, runner>>

\* run_warmup: one run, whose exception is logged and dropped.
WarmupRun ==
    /\ evalq.pc = "warmup"
    /\ evalq.warmLeft > 0
    /\ evalq' = [evalq EXCEPT !.warmLeft = @ - 1, !.warmRuns = @ + 1]
    /\ UNCHANGED <<storeVars, uploadVars, search, validation, poller, benchVars,
                   jobVars, threads, hm, runner>>

\* The context and the tasks are created and gathered.
BeginGather ==
    /\ evalq.pc = "warmup"
    /\ evalq.warmLeft = 0
    /\ evalq' = [evalq EXCEPT
                   !.pc = "gather",
                   !.tasks = [i \in 1..Len(evalq.valid_queries) |->
                                [pc |-> IF evalq.cfg.rate_limited THEN "get" ELSE "acquire",
                                 raised |-> FALSE, result |-> <<>>]]]
    /\ UNCHANGED <<storeVars, uploadVars, search, validation, poller, benchVars,
                   jobVars, threads, hm, runner>>

\* rate_limit_producer puts one token.
ProduceToken ==
    /\ evalq.pc = "gather"
    /\ evalq.cfg.rate_limited
    /\ evalq.produced < Len(evalq.valid_queries)
    /\ evalq' = [evalq EXCEPT !.queue = @ + 1, !.produced = @ + 1]
    /\ UNCHANGED <<storeVars, uploadVars, search, validation, poller, benchVars,
                   jobVars, threads, hm, runner>>

\* `await context.rate_limiter.get()`
TaskGetToken(i) ==
    /\ evalq.pc = "gather"
    /\ i \in 1..Len(evalq.tasks)
    /\ evalq.tasks[i].pc = "get"
    /\ evalq.queue > 0
    /\ evalq' = [evalq EXCEPT !.queue = @ - 1, !.tasks[i].pc = "acquire"]
    /\ UNCHANGED <<storeVars, uploadVars, search, validation, poller, benchVars,
                   jobVars, threads, hm, runner>>

\* `async with context.semaphore:` and the start of runner.run
TaskAcquire(i) ==
    /\ evalq.pc = "gather"
    /\ i \in 1..Len(evalq.tasks)
    /\ evalq.tasks[i].pc = "acquire"
    /\ Cardinality(InFlight) < evalq.cfg.max_concurrent
    /\ evalq' = [evalq EXCEPT !.tasks[i].pc = "running"]
    /\ UNCHANGED <<storeVars, uploadVars, search, validation, poller, benchVars,
                   jobVars, threads, hm, runner>>

\* runner.run returns or raises; the rest of process_single_query follows
\* without any await: the counter, the progress condition, the result.  An
\* exception of the task ends the gather and process_queries with it.
TaskFinish(i) ==
    /\ evalq.pc = "gather"
    /\ i \in 1..Len(evalq.tasks)
    /\ evalq.tasks[i].pc = "running"
    /\ \E raised \in BOOLEAN, resp \in AgentResponses, latency \in EvalLatencies :
         /\ raised => resp = <<DefaultResponse>>
         /\ evalq' =
              IF ModuloDefined(evalq.cfg.log_steps)
              THEN [evalq EXCEPT
                      !.progress_counter = @ + 1,
                      !.tasks[i] = [pc |-> "done", raised |-> raised,
                                    result |-> ResultOf(evalq.valid_queries[i], latency,
                                                        ResponseOf(raised, resp))]]
              ELSE [evalq EXCEPT
                      !.progress_counter = @ + 1,
                      !.tasks[i].pc = "failed", !.tasks[i].raised = raised,
                      !.pc = "raised", !.err = "ZeroDivisionError"]
    /\ UNCHANGED <<storeVars, uploadVars, search, validation, poller, benchVars,
                   jobVars, threads, hm, runner>>

\* gather returns the results in the order of the tasks; the statistics row
\* is appended and the list returned.
GatherReturns ==
    /\ evalq.pc = "gather"
    /\ \A i \in 1..Len(evalq.tasks) : evalq.tasks[i].pc = "done"
    /\ evalq' = [evalq EXCEPT
                   !.pc = "returned",
                   !.results = WithAverage([i \in 1..Len(evalq.tasks) |->
                                               evalq.tasks[i].result])]
    /\ UNCHANGED <<storeVars, uploadVars, search, validation, poller, benchVars,
                   jobVars, threads, hm, runner>>

InitEvaluate ==
    /\ points = {}
    /\ pending = {}
    /\ schema = UploadSchema
    /\ UploadIdle
    /\ ToolsIdle
    /\ JobsIdle
    /\ search = NoSearch
    /\ validation = NoValidation
    /\ threads = NoThreads /\ hm = NoHm /\ runner = NoRunner
    /\ \E n \in 0..MaxQueries :
         evalq \in {[NoEvalq EXCEPT !.pc = "ready", !.queries = qs, !.cfg = c] :
                      qs \in [1..n -> InputQueries], c \in EvalConfigs}

NextEvaluate ==
    \/ EvalStart \/ WarmupRun \/ BeginGather \/ ProduceToken
    \/ \E i \in 1..MaxQueries : TaskGetToken(i) \/ TaskAcquire(i) \/ TaskFinish(i)
    \/ GatherReturns

SpecEvaluate == InitEvaluate /\ [][NextEvaluate]_vars

\* ======================================================== properties
\* Vocabulary of the properties below.
StreamIds == {stream[i].id : i \in {j \in 1..Len(stream) : ~MapperRaises(stream[j])}}
DistinctIds ==
    \A i \in 1..Len(stream) : \A j \in 1..Len(stream) : stream[i].id = stream[j].id => i = j
AllLookupsOk == \A i \in 1..Len(lookups) : lookups[i].ok
FitsSchema(vec) ==
    /\ vec.named
    /\ \A n \in DOMAIN vec.dims \cap SchemaNames(schema) : vec.dims[n] = SizeOf(schema, n)
\* ids of the points mapped from the first n entities of the stream, in order
MappedIdSeq(n) ==
    LET ok == SelectSeq(SubSeq(stream, 1, n), LAMBDA e : ~MapperRaises(e))
    IN [i \in 1..Len(ok) |-> ok[i].id]
Unmappable(n) == Cardinality({i \in 1..n : MapperRaises(stream[i])})
RECURSIVE ConcatTo(_, _)
ConcatTo(seqs, n) == IF n = 0 THEN <<>> ELSE ConcatTo(seqs, n - 1) \o seqs[n]
LookupIds == ConcatTo([i \in 1..Len(lookups) |-> lookups[i].ids], Len(lookups))
\* what a lookup lets through: the ids not found, or the whole batch when it failed
Yielded(l) == IF l.ok THEN SelectSeq(l.ids, LAMBDA i : i \notin l.existing) ELSE l.ids
YieldedIds == ConcatTo([i \in 1..Len(lookups) |-> Yielded(lookups[i])], Len(lookups))

\* C1: every point the generator hands to the bulk write, at any position of
\* the stream, has vectors of the dimensions the collection schema declares.
C1_EveryHandedPointFitsSchema ==
    \A i \in 1..Len(handed) : FitsSchema(handed[i].vector)

\* C2: a search whose query vector has not the dimension of the selected space
\* is refused with a schema-validation error before the store's query call.
C2_MismatchedQueryRefusedBeforeCall ==
    (search.pc # "idle" /\ search.using \in SchemaNames(schema)
        /\ search.qlen # SizeOf(schema, search.using))
    => (search.issued = 0 /\ search.err = "SchemaValidationError")

\* C3: N entities with distinct ids, K of them already in the collection,
\* check_existing on, no mapping failure, no lookup failure: once the stream is
\* consumed exactly the N-K absent points have been handed to the bulk write and
\* none of the K present ones; when the upload has returned and the store has
\* applied the writes, the collection holds the old points and the N-K new ones
\* (N points when it was empty).
C3_ExactlyAbsentPointsHanded ==
    (genDone /\ cfg.check_existing /\ DistinctIds
        /\ Unmappable(Len(stream)) = 0 /\ AllLookupsOk)
    => /\ IdsOf(handed) = StreamIds \ start
       /\ Len(handed) = Len(stream) - Cardinality(StreamIds \cap start)
       /\ IdsOf(handed) \cap start = {}
       /\ (pc = "returned" /\ pending = {})
            => /\ points = start \cup StreamIds
               /\ start = {} => Cardinality(points) = Len(stream)

C3_Witness ==
    /\ pc = "returned" /\ pending = {} /\ uploadNo = 1 /\ cfg.check_existing
    /\ cfg.batch_size = 2 /\ Len(stream) = 2 /\ DistinctIds /\ AllLookupsOk
    /\ Unmappable(2) = 0
    /\ Cardinality(StreamIds \cap start) = 1
    /\ Len(handed) = 1

\* C4 as stated: the second upload of the same stream, started when the first
\* has returned and is fully applied, hands no point to the bulk write and
\* leaves the set of points unchanged.
C4_SecondUploadHandsNothing ==
    (uploadNo = 2 /\ cfg.check_existing)
    => (handed = <<>> /\ points = start /\ pending = {})

\* C4 amended: ... leaves the set of points unchanged, hands only points that
\* are already in the collection, and hands none when none of its existence
\* lookups fails.
C4_SecondUploadIdempotent ==
    (uploadNo = 2 /\ cfg.check_existing)
    => /\ points = start /\ pending = {}
       /\ IdsOf(handed) \subseteq start
       /\ AllLookupsOk => handed = <<>>

C4_Witness ==
    /\ uploadNo = 2 /\ cfg.check_existing /\ pc = "returned"
    /\ prev.handed = 2 /\ Len(stream) = 2
    /\ lookups # <<>> /\ AllLookupsOk /\ handed = <<>>

\* C5: a mapping failure after the first entity does not make upload raise; it
\* skips that entity alone: the points mapped so far are exactly those that went
\* through an existence lookup or wait in the buffer (all handed, without
\* check_existing), one warning is logged per failure, and a 3-entity stream
\* whose second mapping fails gets its 2 points handed and written.
C5_MappingFailureSkipsOneEntity ==
    /\ err = "MappingError" => gpos = 0
    /\ mapFails = Unmappable(gpos)
    /\ cfg.check_existing => MappedIdSeq(gpos) = LookupIds \o IdSeq(batch_buffer)
    /\ ~cfg.check_existing => MappedIdSeq(gpos) = IdSeq(handed)
    /\ (genDone /\ Len(stream) = 3 /\ DistinctIds /\ AllLookupsOk
            /\ ~MapperRaises(stream[1]) /\ MapperRaises(stream[2]) /\ ~MapperRaises(stream[3])
            /\ StreamIds \cap start = {})
        => /\ IdSeq(handed) = <<stream[1].id, stream[3].id>>
           /\ mapFails = 1
           /\ (pc = "returned" /\ pending = {}) => StreamIds \subseteq points

C5_Witness ==
    /\ pc = "returned" /\ pending = {} /\ cfg.check_existing /\ cfg.batch_size = 2
    /\ Len(stream) = 3 /\ MapperRaises(stream[2]) /\ mapFails = 1
    /\ Len(handed) = 2 /\ IdsOf(handed) \subseteq points
    /\ start = {}

\* C6: a mapping failure for the first entity of the stream does not abort the
\* upload.
C6_FirstMappingFailureRecovered ==
    (uploadNo >= 1 /\ stream # <<>> /\ MapperRaises(stream[1])) => pc # "raised"

\* C7: with check_existing the points handed to the bulk write are, batch after
\* batch and in order, the whole batch when its existence lookup raised and the
\* points not found when it answered; a lookup after a failed one is answered
\* from the collection as usual, and no lookup failure is raised by upload.
C7_LookupFailureFailsOpen ==
    /\ cfg.check_existing => IdSeq(handed) = YieldedIds
    /\ \A i \in 1..Len(lookups) :
            lookups[i].ok =>
                /\ Range(lookups[i].ids) \cap start \subseteq lookups[i].existing
                /\ lookups[i].existing \subseteq Range(lookups[i].ids) \cap points
    /\ err = "StoreError" => (prepFetch = "fail" \/ polls > 0)

C7_Witness ==
    /\ pc = "returned" /\ Len(lookups) = 2
    /\ ~lookups[1].ok /\ Len(lookups[1].ids) = 2
    /\ lookups[2].ok /\ lookups[2].existing # {}
    /\ Len(handed) = 2

\* C8: when the bulk write raises, upload raises that error, the readiness
\* poller is not run and the upload is not reported successful; an upload that
\* waits for readiness or has returned has raised nothing.
C8_BulkWriteErrorPropagates ==
    /\ err = "BulkWriteError" => (pc = "raised" /\ polls = 0)
    /\ pc \in {"wait", "returned"} => err = "none"

C8_Witness == err = "BulkWriteError" /\ pc = "raised" /\ sent > 0 /\ genDone

\* C9: when the first mapped point has a vector whose length differs from the
\* dimension of its space, upload raises (the dimension mismatch, once the
\* schema was fetched) and issues no existence lookup, no bulk write and no
\* readiness poll.
C9_FirstPointMismatchFailsFast ==
    (uploadNo >= 1 /\ stream # <<>> /\ ~MapperRaises(stream[1])
        /\ ~FitsSchema(Mapper(stream[1]).vector))
    => /\ pc = "raised"
       /\ prepFetch = "ok" => err = "DimensionMismatch"
       /\ prepFetch = "fail" => err = "StoreError"
       /\ lookups = <<>> /\ handed = <<>> /\ sent = 0 /\ polls = 0 /\ gpos = 0

C9_Witness ==
    /\ uploadNo = 1 /\ stream # <<>> /\ stream[1].kind = "bad"
    /\ err = "DimensionMismatch" /\ pc = "raised"

\* C10 as stated: validation against a named schema fails when the point
\* carries a vector name the schema does not declare.
C10_UndeclaredNameRejected ==
    (validation.called /\ validation.cfg.named /\ validation.vec.named
        /\ ~(DOMAIN validation.vec.dims \subseteq SchemaNames(validation.cfg)))
    => validation.err # "ok"

\* C10 amended: validation of a named point against a named schema ignores
\* the vector names the schema does not declare; it fails, with a dimension
\* mismatch, exactly when a declared space the point carries has another length.
C10_UndeclaredNameIgnored ==
    (validation.called /\ validation.cfg.named /\ validation.vec.named)
    => LET declared == DOMAIN validation.vec.dims \cap SchemaNames(validation.cfg)
           fits == \A n \in declared : validation.vec.dims[n] = SizeOf(validation.cfg, n)
       IN /\ fits => validation.err = "ok"
          /\ ~fits => validation.err = "DimensionMismatch"

C10_Witness ==
    /\ validation.called /\ validation.cfg.named /\ validation.vec.named
    /\ ~(DOMAIN validation.vec.dims \subseteq SchemaNames(validation.cfg))
    /\ DOMAIN validation.vec.dims \cap SchemaNames(validation.cfg) # {}
    /\ validation.err = "ok"

\* The positions of the declared spaces the point carries with another length.
MismatchedAt(vec, spaces) ==
    {i \in 1..Len(spaces) : /\ spaces[i].name \in DOMAIN vec.dims
                            /\ vec.dims[spaces[i].name] # spaces[i].size}
\* The declared names absent from the point among the first n spaces.
AbsentBefore(vec, spaces, n) ==
    {spaces[i].name : i \in {j \in 1..n : spaces[j].name \notin DOMAIN vec.dims}}

\* C11: validating a named point against a named schema never fails because a
\* declared space is absent from the point.  The absence is only logged, and
\* the spaces declared after it are still validated: the call passes, with a
\* warning for every absent space, when no carried space mismatches, and
\* otherwise raises the dimension mismatch of the first mismatching space,
\* after a warning for every absent space declared before it.
C11_AbsentSpaceOnlyLogged ==
    (validation.called /\ validation.cfg.named /\ validation.vec.named)
    => LET sp == validation.cfg.spaces
           bad == MismatchedAt(validation.vec, sp)
       IN IF bad = {}
          THEN /\ validation.err = "ok"
               /\ validation.warned = AbsentBefore(validation.vec, sp, Len(sp))
          ELSE LET k == CHOOSE i \in bad : \A j \in bad : i <= j
               IN /\ validation.err = "DimensionMismatch"
                  /\ validation.warned = AbsentBefore(validation.vec, sp, k - 1)

\* A two-space schema whose first space the point lacks and whose second space
\* the point carries with the wrong length: the absence was logged and the
\* second space was still validated.
C11_Witness ==
    /\ validation.called /\ validation.cfg.named /\ validation.vec.named
    /\ Len(validation.cfg.spaces) = 2
    /\ validation.cfg.spaces[1].name \notin DOMAIN validation.vec.dims
    /\ validation.cfg.spaces[2].name \in DOMAIN validation.vec.dims
    /\ validation.warned = {validation.cfg.spaces[1].name}
    /\ validation.err = "DimensionMismatch"

\* C12: an upload whose entity source is empty is a no-op that returns without
\* error: the mapper is not called, the schema is not fetched, upload_points
\* is not invoked and wait_for_collection_index is not started.
C12_EmptySourceIsNoOp ==
    (uploadNo >= 1 /\ stream = <<>> /\ exhausted)
    => /\ mapFails = 0 /\ handed = <<>>
       /\ prepFetch = "none"
       /\ pc \notin {"upload_points", "wait", "raised"}
       /\ polls = 0
       /\ err = "none"

\* C13: against a store that never reports GREEN and whose lookups always
\* return, wait_for_collection_index does not raise and does not poll for
\* ever: every call returns, having logged the timeout warning, with the
\* elapsed time beyond the timeout, and it never sleeps once the elapsed time
\* has exceeded the timeout.
C13_NeverGreenTimesOut ==
    /\ [](poller.pc # "raised")
    /\ [](poller.pc = "returned"
            => poller.warned /\ poller.elapsed > poller.timeout)
    /\ [](poller.pc = "polling" /\ poller.sleeps > 0
            => poller.elapsed - SleepSeconds <= poller.timeout)
    /\ (poller.pc = "polling") ~> (poller.pc = "returned")

C13_Witness ==
    /\ poller.pc = "returned" /\ poller.warned
    /\ poller.sleeps >= 2
    /\ poller.timeout > 0
    /\ \A i \in 1..Len(poller.seen) : poller.seen[i] \in NeverGreen

\* C14: wait_for_collection_index never raises, whatever the store does.
C14_PollerNeverRaises == poller.pc # "raised"

\* C15: wait_for_collection_index returns as soon as a lookup reports GREEN:
\* GREEN is only ever the last status looked up, the call has then returned
\* without the timeout warning and has slept once before each lookup but the
\* first; a GREEN first lookup means one lookup and no sleep.
C15_ReturnsOnFirstGreen ==
    /\ \A i \in 1..Len(poller.seen) :
            poller.seen[i] = "green"
            => /\ i = Len(poller.seen)
               /\ poller.pc = "returned"
               /\ ~poller.warned
               /\ poller.sleeps = i - 1
    /\ (poller.seen # <<>> /\ poller.seen[1] = "green")
            => Len(poller.seen) = 1 /\ poller.sleeps = 0

C15_Witness ==
    /\ poller.pc = "returned"
    /\ Len(poller.seen) = 2
    /\ poller.seen[2] = "green"
    /\ poller.sleeps = 1

\* C16: within one upload() call wait_for_collection_index is entered at most
\* once, and only after upload_points has returned without raising: no
\* status lookup of the wait happens while upload_points is running, the wait
\* is entered only with the generator finished and every yielded point sent,
\* and an upload() that returns has entered it exactly once.
C16_PollerOnceAfterBulkWrite ==
    /\ waits <= 1
    /\ pc = "upload_points" => waits = 0 /\ polls = 0
    /\ (pc = "wait" \/ polls > 0) => waits = 1
    /\ waits = 1 => /\ genDone /\ sent = Len(handed)
                    /\ pc \in {"wait", "returned", "raised"}
                    /\ err # "BulkWriteError"
    /\ pc = "returned" => waits = 1

C16_Witness ==
    /\ pc = "returned" /\ waits = 1
    /\ polls >= 2
    /\ sent >= 2
    /\ cfg.batch_size = 1

Running == {i \in 1..Len(bench.task) : bench.task[i] = "running"}
Finished == {i \in 1..Len(bench.task) : bench.task[i] \in {"done", "failed"}}

\* C17: in the measured phase the search calls in flight are never more than
\* the configured concurrency; the semaphore's value is the concurrency less
\* the calls in flight.
C17_InFlightAtMostConcurrency ==
    bench.phase \in {"measure", "done", "raised"}
    => /\ Cardinality(Running) <= bench.concurrency
       /\ (Len(bench.task) > 0 => bench.sem = bench.concurrency - Cardinality(Running))

\* The semaphore is exhausted while another measured call waits for it.
C17_Witness ==
    /\ bench.phase = "measure"
    /\ bench.concurrency = 2
    /\ Cardinality(Running) = 2
    /\ \E i \in 1..bench.runs : bench.task[i] = "waiting"

\* C18: the warmup calls run one at a time, no measured call starts before
\* all of them have returned, a run_benchmark that reaches its measured phase
\* has made exactly `warmup` of them, and none of them adds a latency sample.
C18_WarmupSerialAndDiscarded ==
    /\ bench.phase # "raised"
        => bench.warmStarted - bench.warmDone = (IF bench.warmBusy THEN 1 ELSE 0)
    /\ bench.warmStarted <= bench.warmup
    /\ bench.phase = "warmup" => bench.task = <<>> /\ bench.latencies = <<>>
    /\ bench.phase \in {"measure", "done"}
        => bench.warmDone = bench.warmup /\ ~bench.warmBusy
    /\ (Running \cup Finished # {})
        => bench.warmDone = bench.warmup /\ ~bench.warmBusy
    /\ Len(bench.latencies) <= Cardinality(Finished)

C18_Witness ==
    /\ bench.phase = "done"
    /\ bench.warmup = 2 /\ bench.warmDone = 2
    /\ bench.runs = 2 /\ Len(bench.latencies) = 2

\* C19: the samples recorded so far are those of the measured calls that
\* finished first, in the order they finished; a run_benchmark whose search
\* calls all succeeded ends with exactly `runs` samples, one of each call.
C19_SamplesInCompletionOrder ==
    /\ Len(bench.latencies) <= Len(bench.completed)
    /\ \A i \in 1..Len(bench.latencies) : bench.latencies[i] = bench.completed[i]
    /\ bench.phase = "done"
        => /\ Len(bench.latencies) = bench.runs
           /\ Range(bench.latencies) = 1..bench.runs
    /\ (bench.phase = "raised" /\ bench.err = "SearchError")
        => bench.warmDone < bench.warmup
           \/ \E i \in 1..bench.runs : bench.task[i] = "failed"

\* The samples are not in submission order.
C19_Witness ==
    /\ bench.phase = "done"
    /\ bench.runs = 3
    /\ bench.latencies = <<2, 3, 1>>

\* The element at rank ceil(q * n / k) of the sorted sample.
NearestRank(data, q, k) == Sorted(data)[(q * Len(data) + k - 1) \div k]

\* C20: the reported p95 and p99 are the nearest-rank quantiles of the sorted
\* sample: the elements at rank ceil(0.95 n) and ceil(0.99 n).
C20_NearestRankQuantiles ==
    (stats.computed /\ stats.err = "none")
    => /\ stats.p95 = 20 * NearestRank(stats.data, 19, 20)
       /\ stats.p99 = 100 * NearestRank(stats.data, 99, 100)

\* C21: a run_benchmark whose search calls all succeed does not raise, for
\* every runs >= 1 (one run included), warmup >= 0 and concurrency >= 1.
C21_BenchmarkCompletes ==
    bench.phase = "raised"
    => \/ bench.warmStarted > bench.warmDone
       \/ \E i \in 1..Len(bench.task) : bench.task[i] = "failed"

\* C22: when the store's query call raises, search_points raises that very
\* error and returns nothing: a search that the store failed has raised the
\* store's error after one query, with no result, and every search that
\* returned was answered by the store.
C22_SearchErrorReRaised ==
    /\ search.storeErr # "none"
        => /\ search.pc = "raised"
           /\ search.err = search.storeErr
           /\ search.result = {}
           /\ search.issued = 1
    /\ search.pc = "returned" => search.storeErr = "none" /\ search.err = "none"
    /\ search.pc = "raised" => search.storeErr \in StoreErrors

\* The store failed a search that fitted a collection holding points.
C22_Witness ==
    /\ search.pc = "raised"
    /\ search.storeErr = "UnexpectedResponse"
    /\ QueryFits(search.qlen, search.using)
    /\ points # {}

\* C23: create_collection called with an empty map of vector spaces fails
\* with a schema error and sends no create request to the store.
C23_EmptySchemaRejected ==
    (admin.op = "create" /\ DOMAIN admin.args.vector_configs = {})
    => /\ admin.requests = <<>>
       /\ admin.pc = "raised"
       /\ admin.err = "SchemaError"

\* C24: the create request marks every vector space on disk exactly when
\* use_quantization is set, carries the scalar int8 quantization (quantile
\* 0.99, quantized codes always in memory) exactly when use_quantization is
\* set and no quantization otherwise, and hands the size and the distance of
\* each declared space on unchanged, for exactly the declared spaces.
C24_CreateRequestFollowsArgs ==
    admin.op = "create"
    => /\ Len(admin.requests) = 1
       /\ LET r == admin.requests[1]
              a == admin.args
          IN /\ r.collection_name = admin.name
             /\ DOMAIN r.vectors_config = DOMAIN a.vector_configs
             /\ \A n \in DOMAIN r.vectors_config :
                    /\ r.vectors_config[n].on_disk = a.use_quantization
                    /\ r.vectors_config[n].size = a.vector_configs[n].size
                    /\ r.vectors_config[n].distance = a.vector_configs[n].distance
             /\ a.use_quantization
                => /\ r.quantization_config.kind = "scalar"
                   /\ r.quantization_config.type = "int8"
                   /\ r.quantization_config.quantile = 99
                   /\ r.quantization_config.always_ram
             /\ ~a.use_quantization => r.quantization_config = NoQuantization

\* A two-space collection was created without quantization.
C24_Witness ==
    /\ admin.op = "create" /\ admin.pc = "returned"
    /\ DOMAIN admin.args.vector_configs = Names
    /\ ~admin.args.use_quantization
    /\ admin.requests[1].quantization_config = NoQuantization
    /\ admin.name \in collections

C26_NoLookupWithoutCheck ==
    (uploadNo >= 1 /\ ~cfg.check_existing)
    => /\ lookups = <<>>
       /\ batch_buffer = <<>>
       /\ IdSeq(handed) = MappedIdSeq(gpos)
       /\ \A i \in 1..Len(handed) : \E j \in 1..gpos : handed[i] = Mapper(stream[j])

\* A point whose id the collection held from the start was sent again.
C26_Witness ==
    /\ ~cfg.check_existing /\ pc = "returned"
    /\ sent >= 2
    /\ \E i \in 1..Len(handed) : handed[i].id \in start
    /\ mapFails >= 1

\* C27: if a step of the ETL job raises, the job ends with exit status 1 and
\* the step that raised is the last one it ran; a job that ends with status
\* 0 without being interrupted ran count_points last and no step of it raised.
C27_FailedStepEndsJob ==
    /\ etl.failed # "none"
        => /\ etl.pc = "exited" /\ etl.exit = 1
           /\ etl.ran # <<>> /\ etl.ran[Len(etl.ran)] = etl.failed
           /\ \A i \in 1..(Len(etl.ran) - 1) : etl.ran[i] # etl.failed
    /\ (etl.exit = 0 /\ etl.err = "none")
        => etl.failed = "none" /\ etl.ran[Len(etl.ran)] = "count_points"
    /\ etl.exit \in {-1, 0, 1}

\* The upload raised after the collection had been created.
C27_Witness ==
    /\ etl.failed = "upload" /\ etl.exit = 1
    /\ \E i \in 1..Len(etl.ran) : etl.ran[i] = "create_collection"
    /\ \A i \in 1..Len(etl.ran) : etl.ran[i] # "count_points"

\* C28: _needs_refresh returns true exactly when no token is cached, or no
\* expiry is cached, or the time left until the expiry is at most the
\* refresh buffer: a token with more life than the buffer needs no refresh,
\* one with exactly the buffer left does.
C28_NeedsRefreshExact ==
    token.last.op = "_needs_refresh"
    => /\ (token.cached = <<>> \/ token.expiry = <<>>) => token.last.needed
       /\ (token.cached # <<>> /\ token.expiry # <<>>)
          => LET left == token.expiry[1] - token.now
             IN /\ left > token.buffer => ~token.last.needed
                /\ left = token.buffer => token.last.needed
                /\ left < token.buffer => token.last.needed

\* A cached token with exactly the buffer left.
C28_Witness ==
    /\ token.last.op = "_needs_refresh"
    /\ token.cached # <<>> /\ token.expiry # <<>>
    /\ token.buffer > 0
    /\ token.expiry[1] - token.now = token.buffer
    /\ token.last.needed

C30_ClearForcesRefresh ==
    /\ (token.last.op = "get_token" /\ token.last.afterClear)
        => token.last.needed /\ token.last.refreshed
    /\ (token.last.op = "get_token" /\ token.last.err = "none")
        => token.last.result # <<>> /\ token.last.result[1] \notin token.cleared
    /\ token.sinceClear => token.cached = <<>> /\ token.expiry = <<>>

\* A token was cleared with more life left than the buffer, and the next
\* get_token fetched a new one.
C30_Witness ==
    /\ token.last.op = "get_token" /\ token.last.afterClear
    /\ token.last.err = "none"
    /\ token.cleared = {1}
    /\ token.last.result = <<2>>
    /\ token.now = 0 /\ token.buffer = 0

\* a is b with some elements left out, the others in the same order
RECURSIVE IsSubSeq(_, _)
IsSubSeq(a, b) ==
    IF a = <<>> THEN TRUE
    ELSE IF b = <<>> THEN FALSE
    ELSE IF Head(a) = Head(b) THEN IsSubSeq(Tail(a), Tail(b))
    ELSE IsSubSeq(a, Tail(b))
Count(sq, x) == Cardinality({i \in 1..Len(sq) : sq[i] = x})

\* C33: with check_existing the existence lookups are issued in stream order
\* over consecutive mapped points: put end to end they are the beginning of
\* the sequence of mapped points, each has at most batch_size points and only
\* the last one of a finished generator can have fewer; what a lookup yields
\* keeps the order of its batch, and the points handed to the bulk write keep
\* the order of their entities in the stream.
C33_LookupsAndPointsInStreamOrder ==
    (uploadNo >= 1 /\ cfg.check_existing)
    => /\ Len(LookupIds) <= Len(MappedIdSeq(gpos))
       /\ LookupIds = SubSeq(MappedIdSeq(gpos), 1, Len(LookupIds))
       /\ \A i \in 1..Len(lookups) :
            /\ Len(lookups[i].ids) \in 1..cfg.batch_size
            /\ Len(lookups[i].ids) < cfg.batch_size => (i = Len(lookups) /\ genDone)
       /\ \A i \in 1..Len(lookups) : IsSubSeq(Yielded(lookups[i]), lookups[i].ids)
       /\ IsSubSeq(IdSeq(handed), MappedIdSeq(gpos))

\* Two lookups, the trailing one short, and two distinct points handed.
C33_Witness ==
    /\ cfg.check_existing /\ cfg.batch_size = 2 /\ pc = "returned"
    /\ Len(stream) = 3 /\ Len(lookups) = 2
    /\ Len(lookups[1].ids) = 2 /\ Len(lookups[2].ids) = 1
    /\ Len(handed) >= 2 /\ handed[1].id # handed[2].id

\* C34: with check_existing, an id that the collection did not hold when the
\* upload started is handed to the bulk write at most once, however often it
\* occurs in the stream.
C34_DuplicateIdHandedOnce ==
    (uploadNo >= 1 /\ cfg.check_existing /\ AllLookupsOk)
    => \A i \in Ids \ start : Count(IdSeq(handed), i) <= 1

\* C35: when every mapping and every existence lookup succeeds, a finished
\* generator has put every entity of the stream, the first one and those of
\* a trailing short batch included, through exactly one lookup, in order, and
\* has handed exactly once every entity whose id the collection does not
\* hold, and never an entity whose id it held when the upload started.
C35_StreamConserved ==
    (uploadNo >= 1 /\ genDone /\ cfg.check_existing /\ AllLookupsOk
        /\ Unmappable(Len(stream)) = 0 /\ gpos = Len(stream))
    => /\ LookupIds = [i \in 1..Len(stream) |-> stream[i].id]
       /\ batch_buffer = <<>>
       /\ \A i \in Ids :
            /\ i \notin points => Count(IdSeq(handed), i) = Count(LookupIds, i)
            /\ i \in start => Count(IdSeq(handed), i) = 0
            /\ Count(IdSeq(handed), i) <= Count(LookupIds, i)
       /\ \A i \in 1..Len(handed) : \E j \in 1..Len(stream) : handed[i] = Mapper(stream[j])

\* Three entities, batch size 2: the first entity and the trailing one were
\* both handed.
C35_Witness ==
    /\ pc = "returned" /\ cfg.check_existing /\ cfg.batch_size = 2 /\ AllLookupsOk
    /\ Len(stream) = 3 /\ Unmappable(3) = 0 /\ start = {}
    /\ IdSeq(handed) = <<stream[1].id, stream[2].id, stream[3].id>>

\* Threads inside _refresh_token; get_token calls that returned a token.
Refreshing == {t \in Threads : threads.th[t].pc \in {"fetch", "expiry"}}
Returned == {t \in Threads : threads.th[t].op = "get_token" /\ threads.th[t].pc = "done"
                             /\ threads.th[t].err = "none"}
ClearActed == \E t \in Threads : threads.th[t].op = "clear_token" /\ threads.th[t].pc = "done"
\* No refresh failed, and every token fetched still has more life left than
\* the buffer.
FetchedStayFresh ==
    /\ \A t \in Threads : threads.th[t].err = "none"
    /\ \A t \in Threads :
         threads.th[t].expiresAt # <<>>
         => threads.th[t].expiresAt[1] - token.now > token.buffer

\* C36 as stated: refreshes never overlap, no get_token returns None, and
\* when every fetched token stays fresh there is one refresh only and every
\* get_token returns that token - also when clear_token runs among the calls.
C36_OneRefreshEvenWithClear ==
    /\ Cardinality(Refreshing) <= 1
    /\ \A t \in Returned : threads.th[t].result # <<>>
    /\ FetchedStayFresh
       => /\ token.fetches <= 1
          /\ \A t \in Returned : threads.th[t].result = <<1>>

\* C36 amended: refreshes never overlap and no get_token returns None, with
\* or without concurrent clear_token calls; when no clear_token call has run
\* and every fetched token stays fresh, one refresh is performed and every
\* get_token returns the token it fetched.
C36_OneRefreshWithoutClear ==
    /\ Cardinality(Refreshing) <= 1
    /\ Refreshing \subseteq {threads.lock}
    /\ \A t \in Threads : threads.th[t].err # "RuntimeError"
    /\ \A t \in Returned : threads.th[t].result # <<>>
    /\ (FetchedStayFresh /\ ~ClearActed)
       => /\ token.fetches <= 1
          /\ \A t \in Returned : token.fetches = 1 /\ threads.th[t].result = <<1>>

\* Three get_token calls have returned the token of the single refresh.
C36_Witness ==
    /\ token.pc = "shared" /\ FetchedStayFresh /\ ~ClearActed
    /\ Returned = Threads /\ token.fetches = 1
    /\ \A t \in Threads : threads.th[t].result = <<1>>

\* C37: whenever no thread holds the lock, _token is None exactly when
\* _expiry is None.
C37_TokenAndExpiryAbsentTogether ==
    (token.pc = "shared" /\ threads.lock = 0)
    => (token.cached = <<>> <=> token.expiry = <<>>)

\* The lock is free after a refresh whose token could not be decoded, which
\* replaced a cached token, and after a clear_token call.
C37_Witness ==
    /\ token.pc = "shared" /\ threads.lock = 0
    /\ token.cached = <<>> /\ token.expiry = <<>>
    /\ 0 \in token.lost /\ token.fetches >= 2
    /\ ClearActed
    /\ \E t \in Threads : threads.th[t].err = "GoogleAuthError"

\* The last output a sub-agent stored, whatever the other sub-agents did
RECURSIVE LatestOutput(_)
LatestOutput(h) ==
    IF h = <<>> THEN <<>>
    ELSE IF h[Len(h)].state_delta # <<>> THEN h[Len(h)].state_delta[1][2]
    ELSE LatestOutput(SubSeq(h, 1, Len(h) - 1))

\* C31: HMParallelAgent yields nothing while its sub-agents run and one event
\* once they have all finished; the event's text is the JSON of the merged
\* latest outputs of moderator, expander and router, each taken from that
\* sub-agent's own events, so it does not depend on how the events of the
\* three were interleaved.
C31_OneMergedEventWhateverTheOrder ==
    /\ hm.pc \in {"ready", "running", "raised"} => hm.events = <<>>
    /\ hm.pc = "yielded"
       => /\ hm.finished = SubAgents
          /\ Len(hm.events) = 1
          /\ hm.events[1].author = "hm_agent"
          /\ hm.events[1].text =
               JsonDumps(LatestOutput(hm.hist["moderator"])
                         \o LatestOutput(hm.hist["expander"])
                         \o LatestOutput(hm.hist["router"]))
          /\ \A a \in SubAgents :
               hm.events[1].state_delta[OutputKey(a)] = LatestOutput(hm.hist[a])

\* The moderator emitted two events with different outputs, the expander
\* and the router one each; the text has the three keys in the order
\* moderator, expander, router, with the moderator's second output.
C31_Witness ==
    /\ hm.pc = "yielded"
    /\ Len(hm.hist["moderator"]) = 2 /\ Len(hm.hist["expander"]) = 1
    /\ hm.hist["moderator"][1].state_delta = << <<"query_moderator_output", << <<"block", TRUE>> >> >> >>
    /\ hm.events[1].text = <<"{", "block", ":", FALSE, ",", "queries", ":", <<"black dress">>,
                             ",", "group", ":", "men", "}">>

\* C32: after clear_history_only on a session that existed, the service
\* holds a session under the same user and session id with the state it had
\* and no events; on a session that did not exist the service holds no such
\* session; every other session is as it was.
C32_ClearHistoryKeepsStateOnly ==
    runner.call.op = "clear_history_only"
    => LET k == runner.call.key
       IN /\ k \in DOMAIN runner.before
             => /\ k \in DOMAIN runner.sessions
                /\ runner.sessions[k].state = runner.before[k].state
                /\ runner.sessions[k].events = <<>>
          /\ k \notin DOMAIN runner.before => k \notin DOMAIN runner.sessions
          /\ DOMAIN runner.sessions = DOMAIN runner.before
          /\ \A j \in DOMAIN runner.sessions \ {k} : runner.sessions[j] = runner.before[j]

\* The history of a session that a run had filled was cleared, its state
\* kept, while another session kept its events.
C32_Witness ==
    /\ runner.call.op = "clear_history_only"
    /\ runner.call.key = <<"u1", "s1">>
    /\ DOMAIN runner.before = SessionKeys
    /\ Len(runner.before[<<"u1", "s1">>].events) >= 2
    /\ runner.sessions[<<"u1", "s1">>].events = <<>>
    /\ runner.sessions[<<"u1", "s1">>].state.outputs = "set"
    /\ runner.sessions[<<"u1", "s1">>].state.current_user_query = "black dress"
    /\ runner.sessions[<<"u1", "s2">>].events # <<>>

\* C38: for max_retries >= 0, run invokes the agent at most max_retries + 1
\* times; the first attempt carries the query and the initial state delta,
\* every later one follows a validation error and carries the feedback
\* message and an empty state delta, so the session keeps the query as
\* current_user_query; a validation error on the last allowed attempt is
\* raised, any other error is raised on the attempt where it occurs, and an
\* attempt that ends without error ends the call with its response.
C38_RetryOnlyAfterValidationError ==
    (runner.call.op = "run" /\ runner.call.max_retries >= 0)
    => LET c == runner.call
           n == Len(c.attempts)
       IN /\ n <= c.max_retries + 1
          /\ n >= 1 => /\ c.attempts[1].content = c.query
                       /\ c.attempts[1].state_delta = InitialStateDelta(c.query)
                       /\ runner.sessions[c.key].state.current_user_query = c.query
          /\ \A i \in 2..n : /\ c.attempts[i - 1].outcome = "ValidationError"
                             /\ c.attempts[i].content = Feedback
                             /\ c.attempts[i].state_delta = <<>>
          /\ runner.pc = "attempt"
             => /\ n <= c.max_retries
                /\ c.result = <<>> /\ c.err = "none"
                /\ n >= 1 => c.attempts[n].outcome = "ValidationError"
          /\ runner.pc = "raised"
             => /\ c.err = c.attempts[n].outcome
                /\ c.result = <<>>
                /\ c.err = "ValidationError" => n = c.max_retries + 1
          /\ runner.pc = "returned"
             => /\ c.attempts[n].outcome = "ok"
                /\ c.err = "none"
                /\ c.result # <<>> /\ c.result # <<GaveUpResponse>>

\* Two validation errors, then a third attempt that returned its response.
C38_Witness ==
    /\ runner.call.op = "run" /\ runner.call.max_retries = 2
    /\ runner.pc = "returned"
    /\ Len(runner.call.attempts) = 3
    /\ runner.call.attempts[3].content = Feedback
    /\ runner.call.result = <<"Agent escalated: stop">>
    /\ runner.sessions[runner.call.key].events = <<"user", "user", "user", "hm_agent">>

\* C39: process_queries, once the configuration is loaded, does not raise;
\* at most max_concurrent runs are in flight; what it returns has one result
\* per non-blank query, in input order, with an error field where the run
\* raised, then one AVERAGE row when there is a result; and the progress
\* counter then equals the number of queries processed.
C39_OneResultPerQuery ==
    /\ evalq.pc # "raised"
    /\ Cardinality(InFlight) <= (IF evalq.cfg = <<>> THEN 0 ELSE evalq.cfg.max_concurrent)
    /\ (evalq.pc = "returned" /\ evalq.err = "none")
       => LET n == Len(ValidQueries(evalq.queries))
          IN /\ Len(evalq.results) = (IF n > 0 THEN n + 1 ELSE 0)
             /\ \A i \in 1..n :
                  /\ DictGet(evalq.results[i], "query") = ValidQueries(evalq.queries)[i]
                  /\ evalq.tasks[i].raised => "error" \in DictKeys(evalq.results[i])
             /\ n > 0 => DictGet(evalq.results[n + 1], "query") = "AVERAGE"
             /\ evalq.progress_counter = n

=============================================================================
